---- MODULE Spec2Model ----
(***************************************************************************)
(* Model of the PSoC6 crypto driver's AES mode engine                      *)
(* (cy_crypto_core_aes_v1.c): the scratch region shared with the           *)
(* accelerator, the context lifecycle (Init, Free) and the four modes      *)
(* (ECB, CBC, CFB, CTR), each built from block copies, the accelerator's   *)
(* block transform and its 16-byte XOR.                                    *)
(*                                                                         *)
(* Memory is a function from region names to byte sequences.  The scratch  *)
(* region of the accelerator holds the slots key, keyInv, block0, block1,  *)
(* block2 and iv; the caller owns bufA, bufB (payload buffers), ivBuf, the *)
(* key buffer and streamBlock.  A pointer is a record [reg, off].          *)
(***************************************************************************)
EXTENDS Integers, Sequences, FiniteSets, TLC

(* ------------------------------------------------------------------ *)
(* Program constants                                                   *)
(* ------------------------------------------------------------------ *)
CY_CRYPTO_AES_BLOCK_SIZE == 16
CY_CRYPTO_AES_256_KEY_SIZE == 32
CY_CRYPTO_AES_CTR_CNT_POS == 2
CY_CRYPTO_KEY_AES_128 == 0
CY_CRYPTO_KEY_AES_192 == 1
CY_CRYPTO_KEY_AES_256 == 2

CY_CRYPTO_SUCCESS == "CY_CRYPTO_SUCCESS"
CY_CRYPTO_SIZE_NOT_X16 == "CY_CRYPTO_SIZE_NOT_X16"
CY_CRYPTO_ENCRYPT == "CY_CRYPTO_ENCRYPT"
CY_CRYPTO_DECRYPT == "CY_CRYPTO_DECRYPT"

(* ------------------------------------------------------------------ *)
(* Bounds of the model                                                 *)
(* ------------------------------------------------------------------ *)
\* the caller's payload buffers hold MaxBlocks cipher blocks
MaxBlocks == 2
\* API calls (Init, Free and mode calls) made in one behaviour
MaxCalls == 3

BufLen == MaxBlocks * CY_CRYPTO_AES_BLOCK_SIZE

(* ------------------------------------------------------------------ *)
(* Bytes, blocks and pointers                                          *)
(* ------------------------------------------------------------------ *)
\* F applied to the value of v
Bind(v, F(_)) == CHOOSE r \in {F(x) : x \in {v}} : TRUE

\* a function on 1..n as a sequence
AsSeq(f) == f \o <<>>

Fill(n, b) == AsSeq([i \in 1..n |-> b])

\* bitwise exclusive or of two bytes
Xor8(a, b) ==
    LET x(w) == ((((a \div w) % 2) + ((b \div w) % 2)) % 2) * w
    IN  x(1) + x(2) + x(4) + x(8) + x(16) + x(32) + x(64) + x(128)

Ptr(r, o) == [reg |-> r, off |-> o]
PtrAdd(p, n) == [p EXCEPT !.off = @ + n]

\* the n bytes at pointer p
ReadBytes(mem, p, n) == SubSeq(mem[p.reg], p.off + 1, p.off + n)

\* memory with the bytes bs stored at pointer p
WriteBytes(mem, p, bs) ==
    [mem EXCEPT ![p.reg] =
        SubSeq(@, 1, p.off) \o bs \o SubSeq(@, p.off + Len(bs) + 1, Len(@))]

(* ------------------------------------------------------------------ *)
(* Scratch layout: cy_stc_crypto_aes_buffers_t                          *)
(* ------------------------------------------------------------------ *)
ScratchRegs == {"key", "keyInv", "block0", "block1", "block2", "iv"}
CallerRegs == {"bufA", "bufB", "ivBuf", "streamBlock"}
HwRegs == {"AES_CTL"}

RegLen(r) ==
    CASE r \in {"key", "keyInv"} -> CY_CRYPTO_AES_256_KEY_SIZE
      [] r \in {"block0", "block1", "block2", "iv", "ivBuf", "streamBlock"} ->
             CY_CRYPTO_AES_BLOCK_SIZE
      [] r \in HwRegs -> 1
      [] OTHER -> BufLen

(* ------------------------------------------------------------------ *)
(* The accelerator: block transform, inverse-key derivation, XOR        *)
(* ------------------------------------------------------------------ *)
\* bytes of key material selected by the KEY_SIZE field of AES_CTL
KeyBytes(ks) ==
    CASE ks = CY_CRYPTO_KEY_AES_128 -> 16
      [] ks = CY_CRYPTO_KEY_AES_192 -> 24
      [] ks = CY_CRYPTO_KEY_AES_256 -> 32

IsValidKeyLength(ks) ==
    ks \in {CY_CRYPTO_KEY_AES_128, CY_CRYPTO_KEY_AES_192, CY_CRYPTO_KEY_AES_256}

\* the key material folded to one block, for a key of n bytes
HW_RoundKey(k, n) ==
    AsSeq([i \in 1..16 |-> (k[i] + (IF i + 16 <= n THEN k[i + 16] ELSE 0) + n) % 256])

\* AES_BLOCK: a keyed permutation of the 16-byte blocks
HW_AesBlock(keySlot, ks, b) ==
    Bind(<<HW_RoundKey(keySlot, KeyBytes(ks)), b>>,
         LAMBDA v : AsSeq([i \in 1..16 |-> (v[2][(i % 16) + 1] + v[1][i]) % 256]))

\* AES_KEY: the inverse key schedule derived from the key slot.  With the
\* reserved KEY_SIZE encoding the result is whatever the hardware produces
\* (rsv, chosen by the environment).
HW_AesKey(keySlot, ks, rsv) ==
    IF IsValidKeyLength(ks)
    THEN Bind(HW_RoundKey(keySlot, KeyBytes(ks)),
              LAMBDA rk : AsSeq([i \in 1..CY_CRYPTO_AES_256_KEY_SIZE |->
                                    IF i <= 16 THEN (256 - rk[i]) % 256 ELSE 0]))
    ELSE rsv

\* AES_BLOCK_INV: the inverse permutation, under the inverse key schedule
HW_AesBlockInv(invSlot, ks, c) ==
    Bind(<<invSlot, c>>,
         LAMBDA v : AsSeq([j \in 1..16 |->
                             (v[2][((j + 14) % 16) + 1] + v[1][((j + 14) % 16) + 1]) % 256]))

\* AES_XOR
HW_Xor(a, b) ==
    Bind(<<a, b>>, LAMBDA v : AsSeq([i \in 1..16 |-> Xor8(v[1][i], v[2][i])]))

(* ------------------------------------------------------------------ *)
(* Primitive bridge.  A machine m is [mem, log]: the memory (with the    *)
(* AES_CTL register) and the primitive steps issued so far:             *)
(*   <<"copy", dst, src, bytes>>, <<"set", dst, dst>>,                  *)
(*   <<"transform", dirMode, key slot, dst block, src block>>,          *)
(*   <<"xor16", dst block, src0 block, src1 block>>,                    *)
(*   <<"invkey", inverse-key slot, key slot>>.                          *)
(* ------------------------------------------------------------------ *)
\* the KEY_SIZE field of REG_CRYPTO_AES_CTL
KeySizeField(mem) == mem["AES_CTL"][1]

MemCpy(m, d, s, n) ==
    [m EXCEPT !.mem = WriteBytes(@, d, ReadBytes(@, s, n)),
              !.log = Append(@, <<"copy", d.reg, s.reg, n>>)]

MemSet(m, regs, b) ==
    [m EXCEPT !.mem = [r \in DOMAIN @ |->
                          IF r \in regs THEN Fill(Len(@[r]), b) ELSE @[r]],
              !.log = Append(@, <<"set", "scratch", "scratch">>)]

\* Aes_ProcessBlock with the key slot used for both directions
Aes_ProcessBlock_FwdKey(m, st, dirMode, dstBlock, srcBlock) ==
    [m EXCEPT
        !.mem = WriteBytes(@, dstBlock,
                    IF dirMode = CY_CRYPTO_DECRYPT
                    THEN HW_AesBlockInv(@[st.key], KeySizeField(@),
                             ReadBytes(@, srcBlock, CY_CRYPTO_AES_BLOCK_SIZE))
                    ELSE HW_AesBlock(@[st.key], KeySizeField(@),
                             ReadBytes(@, srcBlock, CY_CRYPTO_AES_BLOCK_SIZE))),
        !.log = Append(@, <<"transform", dirMode, st.key, dstBlock.reg, srcBlock.reg>>)]

Aes_ProcessBlock(m, st, dirMode, dstBlock, srcBlock) ==
    [m EXCEPT
        !.mem = WriteBytes(@, dstBlock,
                    IF dirMode = CY_CRYPTO_DECRYPT
                    THEN HW_AesBlockInv(@[st.invKey], KeySizeField(@),
                             ReadBytes(@, srcBlock, CY_CRYPTO_AES_BLOCK_SIZE))
                    ELSE HW_AesBlock(@[st.key], KeySizeField(@),
                             ReadBytes(@, srcBlock, CY_CRYPTO_AES_BLOCK_SIZE))),
        !.log = Append(@, <<"transform", dirMode,
                            IF dirMode = CY_CRYPTO_DECRYPT THEN st.invKey ELSE st.key,
                            dstBlock.reg, srcBlock.reg>>)]

Aes_Xor(m, dstBlock, src0Block, src1Block) ==
    [m EXCEPT
        !.mem = WriteBytes(@, dstBlock,
                    HW_Xor(ReadBytes(@, src0Block, CY_CRYPTO_AES_BLOCK_SIZE),
                           ReadBytes(@, src1Block, CY_CRYPTO_AES_BLOCK_SIZE))),
        !.log = Append(@, <<"xor16", dstBlock.reg, src0Block.reg, src1Block.reg>>)]

Aes_InvKey(m, st, rsv) ==
    [m EXCEPT
        !.mem = WriteBytes(@, Ptr(st.invKey, 0),
                           HW_AesKey(@[st.key], KeySizeField(@), rsv)),
        !.log = Append(@, <<"invkey", st.invKey, st.key>>)]

(* ------------------------------------------------------------------ *)
(* Context lifecycle                                                    *)
(* ------------------------------------------------------------------ *)
\* the context before Init: its pointers are not set
NoState == [init |-> FALSE, keyLength |-> CY_CRYPTO_KEY_AES_128,
            buffers |-> "none", key |-> "none", invKey |-> "none"]

\* Aes_Init with key slots of the context's own for every key length but 128
Aes_Init_OwnSlots(m, keyBytes, keyLength, rsv) ==
    LET own == keyLength # CY_CRYPTO_KEY_AES_128
        st == [init |-> TRUE, keyLength |-> keyLength, buffers |-> "scratch",
               key |-> IF own THEN "ownKey" ELSE "key",
               invKey |-> IF own THEN "ownKeyInv" ELSE "keyInv"]
        m1 == [m EXCEPT !.mem = [r \in DOMAIN @ \cup {"keyBuf", "ownKey", "ownKeyInv"} |->
                                    IF r = "keyBuf" THEN keyBytes
                                    ELSE IF r = "AES_CTL" THEN <<keyLength % 4>>
                                    ELSE IF r \in DOMAIN @ THEN @[r]
                                    ELSE Fill(CY_CRYPTO_AES_256_KEY_SIZE, 205)]]
        m2 == MemCpy(m1, Ptr(st.key, 0), Ptr("keyBuf", 0), CY_CRYPTO_AES_256_KEY_SIZE)
        m3 == Aes_InvKey(m2, st, rsv)
        m4 == [m3 EXCEPT !.mem = [r \in DOMAIN @ \ {"keyBuf"} |-> @[r]]]
    IN  [m |-> m4, st |-> st, status |-> CY_CRYPTO_SUCCESS]

\* Aes_Init with the key length checked
Aes_Init_Validating(m, keyBytes, keyLength, rsv) ==
    IF IsValidKeyLength(keyLength)
    THEN LET st == [init |-> TRUE, keyLength |-> keyLength,
                    buffers |-> "scratch", key |-> "key", invKey |-> "keyInv"]
             m1 == [m EXCEPT !.mem = [r \in DOMAIN @ \cup {"keyBuf"} |->
                                         IF r = "keyBuf" THEN keyBytes
                                         ELSE IF r = "AES_CTL" THEN <<keyLength % 4>>
                                         ELSE @[r]]]
             m2 == MemCpy(m1, Ptr(st.key, 0), Ptr("keyBuf", 0), CY_CRYPTO_AES_256_KEY_SIZE)
             m3 == Aes_InvKey(m2, st, rsv)
             m4 == [m3 EXCEPT !.mem = [r \in DOMAIN @ \ {"keyBuf"} |-> @[r]]]
         IN  [m |-> m4, st |-> st, status |-> CY_CRYPTO_SUCCESS]
    ELSE [m |-> m, st |-> NoState, status |-> "InvalidKeyLength"]

\* Cy_Crypto_Core_V1_Aes_Init.  keyBytes are the CY_CRYPTO_AES_256_KEY_SIZE
\* bytes found at the caller's key pointer.  The result is [m, st, status].
Aes_Init(m, keyBytes, keyLength, rsv) ==
    LET st == [init |-> TRUE, keyLength |-> keyLength,
               buffers |-> "scratch", key |-> "key", invKey |-> "keyInv"]
        m1 == [m EXCEPT !.mem = [r \in DOMAIN @ \cup {"keyBuf"} |->
                                    IF r = "keyBuf" THEN keyBytes
                                    ELSE IF r = "AES_CTL" THEN <<keyLength % 4>>
                                    ELSE @[r]]]
        m2 == MemCpy(m1, Ptr(st.key, 0), Ptr("keyBuf", 0), CY_CRYPTO_AES_256_KEY_SIZE)
        m3 == Aes_InvKey(m2, st, rsv)
        m4 == [m3 EXCEPT !.mem = [r \in DOMAIN @ \ {"keyBuf"} |-> @[r]]]
    IN  [m |-> m4, st |-> st, status |-> CY_CRYPTO_SUCCESS]

\* Aes_Free with only the two key slots zeroed
Aes_Free_KeysOnly(m) == MemSet(m, {"key", "keyInv"}, 0)

\* Cy_Crypto_Core_V1_Aes_Free: zero sizeof(cy_stc_crypto_aes_buffers_t) bytes
Aes_Free(m) == MemSet(m, ScratchRegs, 0)

(* ------------------------------------------------------------------ *)
(* Mode engine.  Each operator returns [m, status].                     *)
(* ------------------------------------------------------------------ *)
\* Aes_Ecb with the staged source block copied out instead of the result
Aes_Ecb_WrongBlock(m, st, dirMode, dst, src) ==
    LET m1 == MemCpy(m, Ptr("block0", 0), src, CY_CRYPTO_AES_BLOCK_SIZE)
        m2 == Aes_ProcessBlock(m1, st, dirMode, Ptr("block1", 0), Ptr("block0", 0))
        m3 == MemCpy(m2, dst, Ptr("block0", 0), CY_CRYPTO_AES_BLOCK_SIZE)
    IN  [m |-> m3, status |-> CY_CRYPTO_SUCCESS]

\* Aes_Ecb with the source block staged in the key slot
Aes_Ecb_StagesInKey(m, st, dirMode, dst, src) ==
    LET m1 == MemCpy(m, Ptr("key", 0), src, CY_CRYPTO_AES_BLOCK_SIZE)
        m2 == Aes_ProcessBlock(m1, st, dirMode, Ptr("block1", 0), Ptr("key", 0))
        m3 == MemCpy(m2, dst, Ptr("block1", 0), CY_CRYPTO_AES_BLOCK_SIZE)
    IN  [m |-> m3, status |-> CY_CRYPTO_SUCCESS]

Aes_Ecb(m, st, dirMode, dst, src) ==
    LET m1 == MemCpy(m, Ptr("block0", 0), src, CY_CRYPTO_AES_BLOCK_SIZE)
        m2 == Aes_ProcessBlock(m1, st, dirMode, Ptr("block1", 0), Ptr("block0", 0))
        m3 == MemCpy(m2, dst, Ptr("block1", 0), CY_CRYPTO_AES_BLOCK_SIZE)
    IN  [m |-> m3, status |-> CY_CRYPTO_SUCCESS]

\* CbcDecryptLoop with the chain block read from src after dst is written
RECURSIVE CbcDecryptLoop_RereadsSource(_, _, _, _, _)
CbcDecryptLoop_RereadsSource(m, st, size, dst, src) ==
    IF size > 0
    THEN LET tempBuff == Ptr("iv", 0)
             srcBuff == Ptr("block0", 0)
             dstBuff == Ptr("block1", 0)
             m1 == MemCpy(m, srcBuff, src, CY_CRYPTO_AES_BLOCK_SIZE)
             m2 == Aes_ProcessBlock(m1, st, CY_CRYPTO_DECRYPT, dstBuff, srcBuff)
             m3 == Aes_Xor(m2, dstBuff, tempBuff, dstBuff)
             m4 == MemCpy(m3, dst, dstBuff, CY_CRYPTO_AES_BLOCK_SIZE)
             m5 == MemCpy(m4, tempBuff, src, CY_CRYPTO_AES_BLOCK_SIZE)
         IN  CbcDecryptLoop_RereadsSource(m5, st, size - CY_CRYPTO_AES_BLOCK_SIZE,
                                          PtrAdd(dst, CY_CRYPTO_AES_BLOCK_SIZE),
                                          PtrAdd(src, CY_CRYPTO_AES_BLOCK_SIZE))
    ELSE m

\* CbcDecryptLoop with the output block kept as the chain block
RECURSIVE CbcDecryptLoop_ChainsOutput(_, _, _, _, _)
CbcDecryptLoop_ChainsOutput(m, st, size, dst, src) ==
    IF size > 0
    THEN LET tempBuff == Ptr("iv", 0)
             srcBuff == Ptr("block0", 0)
             dstBuff == Ptr("block1", 0)
             m1 == MemCpy(m, srcBuff, src, CY_CRYPTO_AES_BLOCK_SIZE)
             m2 == Aes_ProcessBlock(m1, st, CY_CRYPTO_DECRYPT, dstBuff, srcBuff)
             m3 == Aes_Xor(m2, dstBuff, tempBuff, dstBuff)
             m4 == MemCpy(m3, tempBuff, dstBuff, CY_CRYPTO_AES_BLOCK_SIZE)
             m5 == MemCpy(m4, dst, dstBuff, CY_CRYPTO_AES_BLOCK_SIZE)
         IN  CbcDecryptLoop_ChainsOutput(m5, st, size - CY_CRYPTO_AES_BLOCK_SIZE,
                                         PtrAdd(dst, CY_CRYPTO_AES_BLOCK_SIZE),
                                         PtrAdd(src, CY_CRYPTO_AES_BLOCK_SIZE))
    ELSE m

\* CbcDecryptLoop with the chain block replaced before it is used
RECURSIVE CbcDecryptLoop_ChainFirst(_, _, _, _, _)
CbcDecryptLoop_ChainFirst(m, st, size, dst, src) ==
    IF size > 0
    THEN LET tempBuff == Ptr("iv", 0)
             srcBuff == Ptr("block0", 0)
             dstBuff == Ptr("block1", 0)
             m1 == MemCpy(m, srcBuff, src, CY_CRYPTO_AES_BLOCK_SIZE)
             m2 == Aes_ProcessBlock(m1, st, CY_CRYPTO_DECRYPT, dstBuff, srcBuff)
             m3 == MemCpy(m2, tempBuff, srcBuff, CY_CRYPTO_AES_BLOCK_SIZE)
             m4 == Aes_Xor(m3, dstBuff, tempBuff, dstBuff)
             m5 == MemCpy(m4, dst, dstBuff, CY_CRYPTO_AES_BLOCK_SIZE)
         IN  CbcDecryptLoop_ChainFirst(m5, st, size - CY_CRYPTO_AES_BLOCK_SIZE,
                                       PtrAdd(dst, CY_CRYPTO_AES_BLOCK_SIZE),
                                       PtrAdd(src, CY_CRYPTO_AES_BLOCK_SIZE))
    ELSE m

RECURSIVE CbcDecryptLoop(_, _, _, _, _)
CbcDecryptLoop(m, st, size, dst, src) ==
    IF size > 0
    THEN LET tempBuff == Ptr("iv", 0)
             srcBuff == Ptr("block0", 0)
             dstBuff == Ptr("block1", 0)
             m1 == MemCpy(m, srcBuff, src, CY_CRYPTO_AES_BLOCK_SIZE)
             m2 == Aes_ProcessBlock(m1, st, CY_CRYPTO_DECRYPT, dstBuff, srcBuff)
             m3 == Aes_Xor(m2, dstBuff, tempBuff, dstBuff)
             m4 == MemCpy(m3, tempBuff, srcBuff, CY_CRYPTO_AES_BLOCK_SIZE)
             m5 == MemCpy(m4, dst, dstBuff, CY_CRYPTO_AES_BLOCK_SIZE)
         IN  CbcDecryptLoop(m5, st, size - CY_CRYPTO_AES_BLOCK_SIZE,
                            PtrAdd(dst, CY_CRYPTO_AES_BLOCK_SIZE),
                            PtrAdd(src, CY_CRYPTO_AES_BLOCK_SIZE))
    ELSE m

\* CbcEncryptLoop with the block transformed before it is chained
RECURSIVE CbcEncryptLoop_TransformFirst(_, _, _, _, _)
CbcEncryptLoop_TransformFirst(m, st, size, dst, src) ==
    IF size > 0
    THEN LET tempBuff == Ptr("iv", 0)
             srcBuff == Ptr("block0", 0)
             dstBuff == Ptr("block1", 0)
             m1 == MemCpy(m, srcBuff, src, CY_CRYPTO_AES_BLOCK_SIZE)
             m2 == Aes_ProcessBlock(m1, st, CY_CRYPTO_ENCRYPT, dstBuff, srcBuff)
             m3 == Aes_Xor(m2, dstBuff, tempBuff, dstBuff)
             m4 == MemCpy(m3, tempBuff, dstBuff, CY_CRYPTO_AES_BLOCK_SIZE)
             m5 == MemCpy(m4, dst, dstBuff, CY_CRYPTO_AES_BLOCK_SIZE)
         IN  CbcEncryptLoop_TransformFirst(m5, st, size - CY_CRYPTO_AES_BLOCK_SIZE,
                                           PtrAdd(dst, CY_CRYPTO_AES_BLOCK_SIZE),
                                           PtrAdd(src, CY_CRYPTO_AES_BLOCK_SIZE))
    ELSE m

RECURSIVE CbcEncryptLoop(_, _, _, _, _)
CbcEncryptLoop(m, st, size, dst, src) ==
    IF size > 0
    THEN LET tempBuff == Ptr("iv", 0)
             srcBuff == Ptr("block0", 0)
             dstBuff == Ptr("block1", 0)
             m1 == MemCpy(m, srcBuff, src, CY_CRYPTO_AES_BLOCK_SIZE)
             m2 == Aes_Xor(m1, tempBuff, srcBuff, tempBuff)
             m3 == Aes_ProcessBlock(m2, st, CY_CRYPTO_ENCRYPT, dstBuff, tempBuff)
             m4 == MemCpy(m3, tempBuff, dstBuff, CY_CRYPTO_AES_BLOCK_SIZE)
             m5 == MemCpy(m4, dst, dstBuff, CY_CRYPTO_AES_BLOCK_SIZE)
         IN  CbcEncryptLoop(m5, st, size - CY_CRYPTO_AES_BLOCK_SIZE,
                            PtrAdd(dst, CY_CRYPTO_AES_BLOCK_SIZE),
                            PtrAdd(src, CY_CRYPTO_AES_BLOCK_SIZE))
    ELSE m

\* Aes_Cbc that goes on from the chain block left in the scratch region
Aes_Cbc_KeepsChain(m, st, dirMode, srcSize, ivPtr, dst, src) ==
    IF srcSize % CY_CRYPTO_AES_BLOCK_SIZE = 0
    THEN [m |-> IF dirMode = CY_CRYPTO_DECRYPT
                THEN CbcDecryptLoop(m, st, srcSize, dst, src)
                ELSE CbcEncryptLoop(m, st, srcSize, dst, src),
          status |-> CY_CRYPTO_SUCCESS]
    ELSE [m |-> m, status |-> CY_CRYPTO_SIZE_NOT_X16]

\* Aes_Cbc with a misaligned size cut down to whole blocks
Aes_Cbc_RoundsDown(m, st, dirMode, srcSize, ivPtr, dst, src) ==
    LET size == srcSize - (srcSize % CY_CRYPTO_AES_BLOCK_SIZE)
        m1 == MemCpy(m, Ptr("iv", 0), ivPtr, CY_CRYPTO_AES_BLOCK_SIZE)
    IN  [m |-> IF dirMode = CY_CRYPTO_DECRYPT
               THEN CbcDecryptLoop(m1, st, size, dst, src)
               ELSE CbcEncryptLoop(m1, st, size, dst, src),
         status |-> CY_CRYPTO_SUCCESS]

\* Aes_Cbc with the last chain value handed back in the caller's iv
Aes_Cbc_UpdatesIv(m, st, dirMode, srcSize, ivPtr, dst, src) ==
    IF srcSize % CY_CRYPTO_AES_BLOCK_SIZE = 0
    THEN LET m1 == MemCpy(m, Ptr("iv", 0), ivPtr, CY_CRYPTO_AES_BLOCK_SIZE)
             m2 == IF dirMode = CY_CRYPTO_DECRYPT
                   THEN CbcDecryptLoop(m1, st, srcSize, dst, src)
                   ELSE CbcEncryptLoop(m1, st, srcSize, dst, src)
         IN  [m |-> MemCpy(m2, ivPtr, Ptr("iv", 0), CY_CRYPTO_AES_BLOCK_SIZE),
              status |-> CY_CRYPTO_SUCCESS]
    ELSE [m |-> m, status |-> CY_CRYPTO_SIZE_NOT_X16]

Aes_Cbc(m, st, dirMode, srcSize, ivPtr, dst, src) ==
    IF srcSize % CY_CRYPTO_AES_BLOCK_SIZE = 0
    THEN LET m1 == MemCpy(m, Ptr("iv", 0), ivPtr, CY_CRYPTO_AES_BLOCK_SIZE)
         IN  [m |-> IF dirMode = CY_CRYPTO_DECRYPT
                    THEN CbcDecryptLoop(m1, st, srcSize, dst, src)
                    ELSE CbcEncryptLoop(m1, st, srcSize, dst, src),
              status |-> CY_CRYPTO_SUCCESS]
    ELSE [m |-> m, status |-> CY_CRYPTO_SIZE_NOT_X16]

\* CfbLoop with the emitted block fed to the next transform
RECURSIVE CfbLoop_FeedsEmitted(_, _, _, _, _, _)
CfbLoop_FeedsEmitted(m, st, encBuff, size, dst, src) ==
    IF size > 0
    THEN LET srcBuff == Ptr("block0", 0)
             dstBuff == Ptr("block1", 0)
             m1 == Aes_ProcessBlock(m, st, CY_CRYPTO_ENCRYPT, dstBuff, encBuff)
             m2 == MemCpy(m1, srcBuff, src, CY_CRYPTO_AES_BLOCK_SIZE)
             m3 == Aes_Xor(m2, dstBuff, srcBuff, dstBuff)
             m4 == MemCpy(m3, dst, dstBuff, CY_CRYPTO_AES_BLOCK_SIZE)
             m5 == MemCpy(m4, encBuff, dstBuff, CY_CRYPTO_AES_BLOCK_SIZE)
         IN  CfbLoop_FeedsEmitted(m5, st, encBuff, size - CY_CRYPTO_AES_BLOCK_SIZE,
                                  PtrAdd(dst, CY_CRYPTO_AES_BLOCK_SIZE),
                                  PtrAdd(src, CY_CRYPTO_AES_BLOCK_SIZE))
    ELSE m

RECURSIVE CfbLoop(_, _, _, _, _, _)
CfbLoop(m, st, encBuff, size, dst, src) ==
    IF size > 0
    THEN LET srcBuff == Ptr("block0", 0)
             dstBuff == Ptr("block1", 0)
             m1 == Aes_ProcessBlock(m, st, CY_CRYPTO_ENCRYPT, dstBuff, encBuff)
             m2 == MemCpy(m1, srcBuff, src, CY_CRYPTO_AES_BLOCK_SIZE)
             m3 == Aes_Xor(m2, dstBuff, srcBuff, dstBuff)
             m4 == MemCpy(m3, dst, dstBuff, CY_CRYPTO_AES_BLOCK_SIZE)
         IN  CfbLoop(m4, st, encBuff, size - CY_CRYPTO_AES_BLOCK_SIZE,
                     PtrAdd(dst, CY_CRYPTO_AES_BLOCK_SIZE),
                     PtrAdd(src, CY_CRYPTO_AES_BLOCK_SIZE))
    ELSE m

\* Aes_Cfb with the encode buffer left at its default when decrypting
Aes_Cfb_DefaultEncBuff(m, st, dirMode, srcSize, ivPtr, dst, src) ==
    IF srcSize % CY_CRYPTO_AES_BLOCK_SIZE = 0
    THEN LET encBuff == Ptr("block1", 0)
             m1 == MemCpy(m, encBuff, ivPtr, CY_CRYPTO_AES_BLOCK_SIZE)
         IN  [m |-> CfbLoop(m1, st, encBuff, srcSize, dst, src),
              status |-> CY_CRYPTO_SUCCESS]
    ELSE [m |-> m, status |-> CY_CRYPTO_SIZE_NOT_X16]

\* CfbLoop with the direction of the call handed to the block transform
RECURSIVE CfbLoop_Dir(_, _, _, _, _, _, _)
CfbLoop_Dir(m, st, dirMode, encBuff, size, dst, src) ==
    IF size > 0
    THEN LET srcBuff == Ptr("block0", 0)
             dstBuff == Ptr("block1", 0)
             m1 == Aes_ProcessBlock(m, st, dirMode, dstBuff, encBuff)
             m2 == MemCpy(m1, srcBuff, src, CY_CRYPTO_AES_BLOCK_SIZE)
             m3 == Aes_Xor(m2, dstBuff, srcBuff, dstBuff)
             m4 == MemCpy(m3, dst, dstBuff, CY_CRYPTO_AES_BLOCK_SIZE)
         IN  CfbLoop_Dir(m4, st, dirMode, encBuff, size - CY_CRYPTO_AES_BLOCK_SIZE,
                         PtrAdd(dst, CY_CRYPTO_AES_BLOCK_SIZE),
                         PtrAdd(src, CY_CRYPTO_AES_BLOCK_SIZE))
    ELSE m

\* Aes_Cfb with the block transform run in the direction of the call
Aes_Cfb_PassesDirMode(m, st, dirMode, srcSize, ivPtr, dst, src) ==
    IF srcSize % CY_CRYPTO_AES_BLOCK_SIZE = 0
    THEN LET encBuff == IF dirMode = CY_CRYPTO_DECRYPT
                        THEN Ptr("block0", 0) ELSE Ptr("block1", 0)
             m1 == MemCpy(m, encBuff, ivPtr, CY_CRYPTO_AES_BLOCK_SIZE)
         IN  [m |-> CfbLoop_Dir(m1, st, dirMode, encBuff, srcSize, dst, src),
              status |-> CY_CRYPTO_SUCCESS]
    ELSE [m |-> m, status |-> CY_CRYPTO_SIZE_NOT_X16]

Aes_Cfb(m, st, dirMode, srcSize, ivPtr, dst, src) ==
    IF srcSize % CY_CRYPTO_AES_BLOCK_SIZE = 0
    THEN LET encBuff == IF dirMode = CY_CRYPTO_DECRYPT
                        THEN Ptr("block0", 0) ELSE Ptr("block1", 0)
             m1 == MemCpy(m, encBuff, ivPtr, CY_CRYPTO_AES_BLOCK_SIZE)
         IN  [m |-> CfbLoop(m1, st, encBuff, srcSize, dst, src),
              status |-> CY_CRYPTO_SUCCESS]
    ELSE [m |-> m, status |-> CY_CRYPTO_SIZE_NOT_X16]

\* a 64-bit value is its 8 bytes in host (little-endian) order
CY_SWAP_ENDIAN64(v) == AsSeq([i \in 1..8 |-> v[9 - i]])

RECURSIVE Inc64From(_, _)
Inc64From(v, i) ==
    IF i > 8 THEN v
    ELSE IF v[i] = 255 THEN Inc64From([v EXCEPT ![i] = 0], i + 1)
         ELSE [v EXCEPT ![i] = @ + 1]

\* counter++ on the low 32 bits only
Inc64_Low32(v) ==
    LET w == Inc64From(SubSeq(v, 1, 4) \o <<0, 0, 0, 0>>, 1)
    IN  SubSeq(w, 1, 4) \o SubSeq(v, 5, 8)

\* counter++ on a uint64_t
Inc64(v) == Inc64From(v, 1)

\* (uint64_t*)(nonceCounter + CY_CRYPTO_AES_CTR_CNT_POS), nonceCounter a uint32_t*
CounterPtr == Ptr("iv", 4 * CY_CRYPTO_AES_CTR_CNT_POS)

\* CtrLoop with the counter incremented before the block transform
RECURSIVE CtrLoop_IncFirst(_, _, _, _, _, _, _)
CtrLoop_IncFirst(m, st, counter, i, cnt, dst, src) ==
    IF i < cnt
    THEN LET nonceCounter == Ptr("iv", 0)
             srcBuff == Ptr("block0", 0)
             dstBuff == Ptr("block1", 0)
             streamBuff == Ptr("block2", 0)
             m1 == MemCpy(m, srcBuff, src, CY_CRYPTO_AES_BLOCK_SIZE)
             c1 == Inc64(counter)
             m2 == [m1 EXCEPT !.mem = WriteBytes(@, CounterPtr, CY_SWAP_ENDIAN64(c1))]
             m3 == Aes_ProcessBlock(m2, st, CY_CRYPTO_ENCRYPT, streamBuff, nonceCounter)
             m4 == Aes_Xor(m3, dstBuff, srcBuff, streamBuff)
             m5 == MemCpy(m4, dst, dstBuff, CY_CRYPTO_AES_BLOCK_SIZE)
         IN  CtrLoop_IncFirst(m5, st, c1, i + 1, cnt,
                              PtrAdd(dst, CY_CRYPTO_AES_BLOCK_SIZE),
                              PtrAdd(src, CY_CRYPTO_AES_BLOCK_SIZE))
    ELSE m

RECURSIVE CtrLoop(_, _, _, _, _, _, _)
CtrLoop(m, st, counter, i, cnt, dst, src) ==
    IF i < cnt
    THEN LET nonceCounter == Ptr("iv", 0)
             srcBuff == Ptr("block0", 0)
             dstBuff == Ptr("block1", 0)
             streamBuff == Ptr("block2", 0)
             m1 == MemCpy(m, srcBuff, src, CY_CRYPTO_AES_BLOCK_SIZE)
             m2 == Aes_ProcessBlock(m1, st, CY_CRYPTO_ENCRYPT, streamBuff, nonceCounter)
             c1 == Inc64(counter)
             m3 == [m2 EXCEPT !.mem = WriteBytes(@, CounterPtr, CY_SWAP_ENDIAN64(c1))]
             m4 == Aes_Xor(m3, dstBuff, srcBuff, streamBuff)
             m5 == MemCpy(m4, dst, dstBuff, CY_CRYPTO_AES_BLOCK_SIZE)
         IN  CtrLoop(m5, st, c1, i + 1, cnt,
                     PtrAdd(dst, CY_CRYPTO_AES_BLOCK_SIZE),
                     PtrAdd(src, CY_CRYPTO_AES_BLOCK_SIZE))
    ELSE m

\* Aes_Ctr without the copy of the counter back to the caller's iv
Aes_Ctr_NoWriteBack(m, st, srcSize, ivPtr, streamBlock, dst, src) ==
    LET cnt == srcSize \div CY_CRYPTO_AES_BLOCK_SIZE
        Run(m1) ==
            LET counter == CY_SWAP_ENDIAN64(ReadBytes(m1.mem, CounterPtr, 8))
            IN  CtrLoop(m1, st, counter, 0, cnt, dst, src)
    IN  [m |-> Bind(MemCpy(m, Ptr("iv", 0), ivPtr, CY_CRYPTO_AES_BLOCK_SIZE), Run),
         status |-> CY_CRYPTO_SUCCESS,
         srcOffset |-> srcSize % CY_CRYPTO_AES_BLOCK_SIZE]

\* Aes_Ctr with a trailing partial block counted as a block
Aes_Ctr_RoundsUp(m, st, srcSize, ivPtr, streamBlock, dst, src) ==
    LET cnt == (srcSize + CY_CRYPTO_AES_BLOCK_SIZE - 1) \div CY_CRYPTO_AES_BLOCK_SIZE
        Run(m1) ==
            LET counter == CY_SWAP_ENDIAN64(ReadBytes(m1.mem, CounterPtr, 8))
                m2 == CtrLoop(m1, st, counter, 0, cnt, dst, src)
            IN  MemCpy(m2, ivPtr, Ptr("iv", 0), CY_CRYPTO_AES_BLOCK_SIZE)
    IN  [m |-> Bind(MemCpy(m, Ptr("iv", 0), ivPtr, CY_CRYPTO_AES_BLOCK_SIZE), Run),
         status |-> CY_CRYPTO_SUCCESS,
         srcOffset |-> srcSize % CY_CRYPTO_AES_BLOCK_SIZE]

\* Aes_Ctr with the bytes behind the last whole block processed as well
Aes_Ctr_PartialTail(m, st, srcSize, ivPtr, streamBlock, dst, src) ==
    LET cnt == srcSize \div CY_CRYPTO_AES_BLOCK_SIZE
        rest == srcSize % CY_CRYPTO_AES_BLOCK_SIZE
        done == cnt * CY_CRYPTO_AES_BLOCK_SIZE
        Partial(m2, counter) ==
            IF rest = 0 THEN m2
            ELSE LET t1 == MemCpy(m2, Ptr("block0", 0), PtrAdd(src, done), rest)
                     t2 == Aes_ProcessBlock(t1, st, CY_CRYPTO_ENCRYPT,
                                            Ptr("block2", 0), Ptr("iv", 0))
                     t3 == [t2 EXCEPT !.mem = WriteBytes(@, CounterPtr,
                                                  CY_SWAP_ENDIAN64(Inc64(counter)))]
                     t4 == Aes_Xor(t3, Ptr("block1", 0), Ptr("block0", 0), Ptr("block2", 0))
                 IN  MemCpy(t4, PtrAdd(dst, done), Ptr("block1", 0), rest)
        Run(m1) ==
            LET counter == CY_SWAP_ENDIAN64(ReadBytes(m1.mem, CounterPtr, 8))
                m2 == CtrLoop(m1, st, counter, 0, cnt, dst, src)
                m3 == Partial(m2, CY_SWAP_ENDIAN64(ReadBytes(m2.mem, CounterPtr, 8)))
            IN  MemCpy(m3, ivPtr, Ptr("iv", 0), CY_CRYPTO_AES_BLOCK_SIZE)
    IN  [m |-> Bind(MemCpy(m, Ptr("iv", 0), ivPtr, CY_CRYPTO_AES_BLOCK_SIZE), Run),
         status |-> CY_CRYPTO_SUCCESS,
         srcOffset |-> srcSize % CY_CRYPTO_AES_BLOCK_SIZE]

\* the result is [m, status, srcOffset]; streamBlock is a parameter the
\* function never uses
Aes_Ctr(m, st, srcSize, ivPtr, streamBlock, dst, src) ==
    LET cnt == srcSize \div CY_CRYPTO_AES_BLOCK_SIZE
        Run(m1) ==
            LET counter == CY_SWAP_ENDIAN64(ReadBytes(m1.mem, CounterPtr, 8))
                m2 == CtrLoop(m1, st, counter, 0, cnt, dst, src)
            IN  MemCpy(m2, ivPtr, Ptr("iv", 0), CY_CRYPTO_AES_BLOCK_SIZE)
    IN  [m |-> Bind(MemCpy(m, Ptr("iv", 0), ivPtr, CY_CRYPTO_AES_BLOCK_SIZE), Run),
         status |-> CY_CRYPTO_SUCCESS,
         srcOffset |-> srcSize % CY_CRYPTO_AES_BLOCK_SIZE]

(* ------------------------------------------------------------------ *)
(* The mode functions statement by statement.  A call in progress is    *)
(* the record l of its parameters and local variables: pc is the        *)
(* statement to execute next, wait holds while the call spins on the    *)
(* accelerator's busy flag.  A statement yields the machine, the locals *)
(* and the instruction it issued to the accelerator, if any.            *)
(* ------------------------------------------------------------------ *)
NoInstr == [opc |-> "none"]

\* Cy_Crypto_Run3ParamInstr(base, CY_CRYPTO_V1_AES_BLOCK_OPC or _INV_OPC, ...)
BlockInstr(dirMode, dstBlock, srcBlock) ==
    [opc |-> "AES_BLOCK", dirMode |-> dirMode, dst |-> dstBlock,
     src0 |-> srcBlock, src1 |-> srcBlock]

\* Cy_Crypto_Run3ParamInstr(base, CY_CRYPTO_V1_AES_XOR_OPC, ...)
XorInstr(dstBlock, src0Block, src1Block) ==
    [opc |-> "AES_XOR", dirMode |-> CY_CRYPTO_ENCRYPT, dst |-> dstBlock,
     src0 |-> src0Block, src1 |-> src1Block]

\* what the accelerator does to the memory when it completes an instruction
HwRun(m, st, instr) ==
    IF instr.opc = "AES_XOR"
    THEN Aes_Xor(m, instr.dst, instr.src0, instr.src1)
    ELSE Aes_ProcessBlock(m, st, instr.dirMode, instr.dst, instr.src0)

\* a statement that only moves on
Goto(m, l, pc) == [m |-> m, l |-> [l EXCEPT !.pc = pc], instr |-> NoInstr]

\* a Cy_Crypto_Core_V1_MemCpy of one block
CopyBlock(m, l, d, s, pc) ==
    [m |-> MemCpy(m, d, s, CY_CRYPTO_AES_BLOCK_SIZE),
     l |-> [l EXCEPT !.pc = pc], instr |-> NoInstr]

\* a call of Aes_ProcessBlock or Aes_Xor: the instruction is issued and the
\* call spins until the accelerator is not busy
Issue(m, l, instr, pc) ==
    [m |-> m, l |-> [l EXCEPT !.pc = pc, !.wait = TRUE], instr |-> instr]

\* src += 16; dst += 16
Advance(l) ==
    [l EXCEPT !.src = PtrAdd(@, CY_CRYPTO_AES_BLOCK_SIZE),
              !.dst = PtrAdd(@, CY_CRYPTO_AES_BLOCK_SIZE)]

\* return (status)
Return(m, l, status) ==
    [m |-> m, l |-> [l EXCEPT !.pc = "done", !.status = status], instr |-> NoInstr]

EcbStep(m, l) ==
    CASE l.pc = "entry" -> Goto(m, l, "stage")
      [] l.pc = "stage" -> CopyBlock(m, l, Ptr("block0", 0), l.src, "transform")
      [] l.pc = "transform" ->
             Issue(m, l, BlockInstr(l.dirMode, Ptr("block1", 0), Ptr("block0", 0)), "emit")
      [] l.pc = "emit" -> CopyBlock(m, l, l.dst, Ptr("block1", 0), "return")
      [] l.pc = "return" -> Return(m, l, CY_CRYPTO_SUCCESS)

CbcStep(m, l) ==
    LET tempBuff == Ptr("iv", 0)
        srcBuff == Ptr("block0", 0)
        dstBuff == Ptr("block1", 0)
    IN
    CASE l.pc = "entry" ->
             Goto(m, [l EXCEPT !.size = l.srcSize, !.myResult = CY_CRYPTO_SIZE_NOT_X16],
                  "check")
      [] l.pc = "check" ->
             Goto(m, l, IF l.size % CY_CRYPTO_AES_BLOCK_SIZE = 0 THEN "iv" ELSE "return")
      [] l.pc = "iv" -> CopyBlock(m, l, tempBuff, l.ivPtr, "loop")
      [] l.pc = "loop" ->
             Goto(m, l, IF l.size > 0
                        THEN (IF l.dirMode = CY_CRYPTO_DECRYPT THEN "dstage" ELSE "estage")
                        ELSE "success")
      [] l.pc = "dstage" -> CopyBlock(m, l, srcBuff, l.src, "dtransform")
      [] l.pc = "dtransform" -> Issue(m, l, BlockInstr(l.dirMode, dstBuff, srcBuff), "dxor")
      [] l.pc = "dxor" -> Issue(m, l, XorInstr(dstBuff, tempBuff, dstBuff), "dchain")
      [] l.pc = "dchain" -> CopyBlock(m, l, tempBuff, srcBuff, "emit")
      [] l.pc = "estage" -> CopyBlock(m, l, srcBuff, l.src, "exor")
      [] l.pc = "exor" -> Issue(m, l, XorInstr(tempBuff, srcBuff, tempBuff), "etransform")
      [] l.pc = "etransform" -> Issue(m, l, BlockInstr(l.dirMode, dstBuff, tempBuff), "echain")
      [] l.pc = "echain" -> CopyBlock(m, l, tempBuff, dstBuff, "emit")
      [] l.pc = "emit" ->
             CopyBlock(m, [Advance(l) EXCEPT !.size = @ - CY_CRYPTO_AES_BLOCK_SIZE],
                       l.dst, dstBuff, "loop")
      [] l.pc = "success" -> Goto(m, [l EXCEPT !.myResult = CY_CRYPTO_SUCCESS], "return")
      [] l.pc = "return" -> Return(m, l, l.myResult)

CfbStep(m, l) ==
    LET srcBuff == Ptr("block0", 0)
        dstBuff == Ptr("block1", 0)
    IN
    CASE l.pc = "entry" ->
             Goto(m, [l EXCEPT !.size = l.srcSize, !.myResult = CY_CRYPTO_SIZE_NOT_X16,
                               !.encBuff = dstBuff], "check")
      [] l.pc = "check" ->
             Goto(m, l, IF l.size % CY_CRYPTO_AES_BLOCK_SIZE = 0 THEN "encbuff" ELSE "return")
      [] l.pc = "encbuff" ->
             Goto(m, IF l.dirMode = CY_CRYPTO_DECRYPT THEN [l EXCEPT !.encBuff = srcBuff]
                     ELSE l, "iv")
      [] l.pc = "iv" -> CopyBlock(m, l, l.encBuff, l.ivPtr, "loop")
      [] l.pc = "loop" -> Goto(m, l, IF l.size > 0 THEN "transform" ELSE "success")
      [] l.pc = "transform" ->
             Issue(m, l, BlockInstr(CY_CRYPTO_ENCRYPT, dstBuff, l.encBuff), "stage")
      [] l.pc = "stage" -> CopyBlock(m, l, srcBuff, l.src, "xor")
      [] l.pc = "xor" -> Issue(m, l, XorInstr(dstBuff, srcBuff, dstBuff), "emit")
      [] l.pc = "emit" ->
             CopyBlock(m, [Advance(l) EXCEPT !.size = @ - CY_CRYPTO_AES_BLOCK_SIZE],
                       l.dst, dstBuff, "loop")
      [] l.pc = "success" -> Goto(m, [l EXCEPT !.myResult = CY_CRYPTO_SUCCESS], "return")
      [] l.pc = "return" -> Return(m, l, l.myResult)

CtrStep(m, l) ==
    LET nonceCounter == Ptr("iv", 0)
        srcBuff == Ptr("block0", 0)
        dstBuff == Ptr("block1", 0)
        streamBuff == Ptr("block2", 0)
    IN
    CASE l.pc = "entry" -> Goto(m, l, "iv")
      [] l.pc = "iv" -> CopyBlock(m, l, nonceCounter, l.ivPtr, "counter")
      [] l.pc = "counter" ->
             Goto(m, [l EXCEPT !.counter = CY_SWAP_ENDIAN64(ReadBytes(m.mem, CounterPtr, 8)),
                               !.cnt = l.srcSize \div CY_CRYPTO_AES_BLOCK_SIZE,
                               !.i = 0], "loop")
      [] l.pc = "loop" -> Goto(m, l, IF l.i < l.cnt THEN "stage" ELSE "ivback")
      [] l.pc = "stage" -> CopyBlock(m, l, srcBuff, l.src, "transform")
      [] l.pc = "transform" ->
             Issue(m, l, BlockInstr(CY_CRYPTO_ENCRYPT, streamBuff, nonceCounter), "inc")
      [] l.pc = "inc" ->
             [m |-> [m EXCEPT !.mem = WriteBytes(@, CounterPtr,
                                          CY_SWAP_ENDIAN64(Inc64(l.counter)))],
              l |-> [l EXCEPT !.counter = Inc64(@), !.pc = "xor"],
              instr |-> NoInstr]
      [] l.pc = "xor" -> Issue(m, l, XorInstr(dstBuff, srcBuff, streamBuff), "emit")
      [] l.pc = "emit" ->
             CopyBlock(m, [Advance(l) EXCEPT !.i = @ + 1], l.dst, dstBuff, "loop")
      [] l.pc = "ivback" -> CopyBlock(m, l, l.ivPtr, nonceCounter, "offset")
      [] l.pc = "offset" ->
             Goto(m, [l EXCEPT !.srcOffset = l.srcSize % CY_CRYPTO_AES_BLOCK_SIZE], "return")
      [] l.pc = "return" -> Return(m, l, CY_CRYPTO_SUCCESS)

\* the next statement of the call l
ModeStep(m, l) ==
    CASE l.op = "ecb" -> EcbStep(m, l)
      [] l.op = "cbc" -> CbcStep(m, l)
      [] l.op = "cfb" -> CfbStep(m, l)
      [] l.op = "ctr" -> CtrStep(m, l)

(* ------------------------------------------------------------------ *)
(* Inputs of the model                                                  *)
(* ------------------------------------------------------------------ *)
Key1 == AsSeq([i \in 1..CY_CRYPTO_AES_256_KEY_SIZE |-> (i * 7 + 3) % 256])
Key2 == AsSeq([i \in 1..CY_CRYPTO_AES_256_KEY_SIZE |-> (i * i * 5 + 11) % 256])

\* the bytes at the caller's key pointer: n bytes of key material followed
\* by whatever lies behind the caller's key buffer
KeyBuffer(k, n, behind) ==
    AsSeq([i \in 1..CY_CRYPTO_AES_256_KEY_SIZE |-> IF i <= n THEN k[i] ELSE behind])

\* the keyInv slot after AES_KEY ran with the reserved KEY_SIZE encoding
ReservedOutcomes == {Fill(CY_CRYPTO_AES_256_KEY_SIZE, 0),
                     Fill(CY_CRYPTO_AES_256_KEY_SIZE, 255)}

\* the arguments of Init: the key, its length class, and the two things the
\* caller does not choose (the bytes behind a short key buffer, the result
\* of the key operation under a reserved key size)
InitInputs ==
    {[key |-> Key1, keyLength |-> CY_CRYPTO_KEY_AES_128, behind |-> b,
      rsv |-> Fill(CY_CRYPTO_AES_256_KEY_SIZE, 0)] : b \in {0, 165}}
    \cup {[key |-> Key2, keyLength |-> CY_CRYPTO_KEY_AES_192, behind |-> 0,
           rsv |-> Fill(CY_CRYPTO_AES_256_KEY_SIZE, 0)],
          [key |-> Key2, keyLength |-> CY_CRYPTO_KEY_AES_256, behind |-> 0,
           rsv |-> Fill(CY_CRYPTO_AES_256_KEY_SIZE, 0)]}
    \cup {[key |-> Key1, keyLength |-> 3, behind |-> 0, rsv |-> o] :
             o \in ReservedOutcomes}

\* the size of the caller's key buffer for a key length class (a caller that
\* passes an unsupported class holds a buffer of the largest size)
SuppliedKeyBytes(keyLength) ==
    IF IsValidKeyLength(keyLength) THEN KeyBytes(keyLength)
    ELSE CY_CRYPTO_AES_256_KEY_SIZE

Payload1 == AsSeq([i \in 1..BufLen |-> (i * 11 + 5) % 256])

\* nonce and counter blocks: the counter wraps around, or carries across a byte
IvWrap == AsSeq([i \in 1..16 |-> IF i <= 8 THEN 160 + i ELSE 255])
IvLow == AsSeq([i \in 1..16 |-> IF i <= 8 THEN 3 * i ELSE IF i = 15 THEN 1
                                                 ELSE IF i = 16 THEN 255 ELSE 0])
IVs == {IvWrap, IvLow}

Directions == {CY_CRYPTO_ENCRYPT, CY_CRYPTO_DECRYPT}

\* srcSize values: whole blocks, and sizes that leave half a block over
Sizes == {k * CY_CRYPTO_AES_BLOCK_SIZE : k \in 0..MaxBlocks}
         \cup {8, MaxBlocks * CY_CRYPTO_AES_BLOCK_SIZE - 8}

(* ------------------------------------------------------------------ *)
(* State                                                                *)
(* ------------------------------------------------------------------ *)
VARIABLES
    mem,        \* region name -> bytes: the scratch region and the caller's buffers
    aesState,   \* the caller's cy_stc_crypto_aes_state_t
    srcOffset,  \* the caller's srcOffset word (CTR)
    srcBuf,     \* the caller's buffer that holds the data to process next
    live,       \* the key slots hold what Init derived (no Free since)
    calls,      \* API calls made so far
    last,       \* the API call that returned last
    prev,       \* the API call before it
    hwmem,      \* CRYPTO instance -> its registers and its scratch region
    bufs,       \* caller -> the buffers of that caller
    proc,       \* caller -> the mode call that caller has in progress
    hw,         \* CRYPTO instance -> its busy flag and the instruction it runs
    lwip_arena,     \* EthernetInterface.cpp: the static arena of sockets
    lwip_ip_addr,   \* the address string, "" when lwip_ip_addr[0] is 0
    lwip_mac_addr,  \* the MAC string, "" when lwip_mac_addr[0] is 0
    lwip_netif_up,  \* the count of the semaphore lwip_netif_up
    dhcp,           \* the DHCP client of lwip_netif is running
    handles,        \* the socket handles the callers hold (0: a null handle)
    fault,          \* the program stopped on an access through a null pointer
    netCalls,       \* calls of the network interface made so far
    netLast,        \* the call of the network interface that returned last
    thr,            \* thread -> the socket call that thread has in progress
    held            \* the contexts the caller got from Aes_Init, oldest first

\* the state of the AES API call by call, of two AES calls statement by
\* statement, of the network interface, and the contexts a caller keeps
apiVars == <<mem, aesState, srcOffset, srcBuf, live, calls, last, prev>>
runVars == <<hwmem, bufs, proc, hw>>
netVars == <<lwip_arena, lwip_ip_addr, lwip_mac_addr, lwip_netif_up, dhcp,
             handles, fault, netCalls, netLast, thr>>
ctxVars == <<held>>
vars == <<apiVars, runVars, netVars, ctxVars>>

\* the network interface before any call of it
NoNetCall == [op |-> "none", ret |-> "0", nullSlot |-> FALSE, full |-> FALSE]

NetIdle ==
    /\ lwip_arena = <<>> /\ lwip_ip_addr = "" /\ lwip_mac_addr = ""
    /\ lwip_netif_up = 0 /\ dhcp = FALSE /\ handles = {} /\ fault = FALSE
    /\ netCalls = 0 /\ netLast = NoNetCall
    /\ thr = <<>>

NoCall == [op |-> "none"]

Machine == [mem |-> mem, log |-> <<>>]

Other(b) == IF b = "bufA" THEN "bufB" ELSE "bufA"

\* the record of a mode call: its arguments, the state it started from, what
\* it returned and the primitive steps it issued
Call(op, dirMode, srcSize, r) ==
    [op |-> op, dirMode |-> dirMode, srcSize |-> srcSize,
     src |-> srcBuf, dst |-> Other(srcBuf),
     pre |-> mem, preState |-> aesState, preLive |-> live,
     status |-> r.status, log |-> r.m.log]

Init ==
    /\ \E v \in IVs :
          mem = [r \in ScratchRegs \cup CallerRegs \cup HwRegs |->
                    CASE r = "bufA" -> Payload1
                      [] r = "bufB" -> Fill(BufLen, 238)
                      [] r = "ivBuf" -> v
                      [] r = "streamBlock" -> Fill(CY_CRYPTO_AES_BLOCK_SIZE, 85)
                      [] r = "AES_CTL" -> <<0>>
                      [] OTHER -> Fill(RegLen(r), 205)]
    /\ aesState = NoState
    /\ srcOffset = 0
    /\ srcBuf = "bufA"
    /\ live = FALSE
    /\ calls = 0
    /\ last = NoCall
    /\ prev = NoCall
    /\ hwmem = <<>> /\ bufs = <<>> /\ proc = <<>> /\ hw = <<>>
    /\ NetIdle
    /\ held = <<>>

\* a mode call needs a context made by Init from a supported key length
Usable == aesState.init /\ IsValidKeyLength(aesState.keyLength)

Returned(r, rec) ==
    /\ mem' = r.m.mem
    /\ calls' = calls + 1
    /\ prev' = last
    /\ last' = rec
    /\ UNCHANGED <<runVars, netVars>>

\* the caller feeds the next call the output of this one
ModeReturned(r, rec) ==
    /\ Returned(r, rec)
    /\ srcBuf' = Other(srcBuf)
    /\ UNCHANGED <<aesState, live, ctxVars>>

DoInit ==
    /\ calls < MaxCalls
    /\ \E a \in InitInputs :
        \E r \in {Aes_Init(Machine, KeyBuffer(a.key, SuppliedKeyBytes(a.keyLength),
                                              a.behind), a.keyLength, a.rsv)} :
            /\ Returned(r, [op |-> "init", keyLength |-> a.keyLength,
                            status |-> r.status, log |-> r.m.log])
            /\ aesState' = r.st
            /\ live' = TRUE
            /\ UNCHANGED <<srcOffset, srcBuf, ctxVars>>

DoFree ==
    /\ calls < MaxCalls
    /\ \E r \in {[m |-> Aes_Free(Machine)]} :
           /\ Returned(r, [op |-> "free", log |-> r.m.log])
           /\ live' = FALSE
           /\ UNCHANGED <<aesState, srcOffset, srcBuf, ctxVars>>

\* srcSize is the size of the data the caller holds at src; Ecb has no size
\* parameter
DoEcb ==
    /\ Usable /\ calls < MaxCalls
    /\ \E dirMode \in Directions,
          srcSize \in {n \in Sizes : n >= CY_CRYPTO_AES_BLOCK_SIZE} :
            \E r \in {Aes_Ecb(Machine, aesState, dirMode,
                             Ptr(Other(srcBuf), 0), Ptr(srcBuf, 0))} :
                /\ ModeReturned(r, Call("ecb", dirMode, srcSize, r))
                /\ UNCHANGED srcOffset

DoCbc ==
    /\ Usable /\ calls < MaxCalls
    /\ \E dirMode \in Directions, srcSize \in Sizes :
            \E r \in {Aes_Cbc(Machine, aesState, dirMode, srcSize, Ptr("ivBuf", 0),
                             Ptr(Other(srcBuf), 0), Ptr(srcBuf, 0))} :
                /\ ModeReturned(r, Call("cbc", dirMode, srcSize, r))
                /\ UNCHANGED srcOffset

DoCfb ==
    /\ Usable /\ calls < MaxCalls
    /\ \E dirMode \in Directions, srcSize \in Sizes :
            \E r \in {Aes_Cfb(Machine, aesState, dirMode, srcSize, Ptr("ivBuf", 0),
                             Ptr(Other(srcBuf), 0), Ptr(srcBuf, 0))} :
                /\ ModeReturned(r, Call("cfb", dirMode, srcSize, r))
                /\ UNCHANGED srcOffset

DoCtr ==
    /\ Usable /\ calls < MaxCalls
    /\ \E srcSize \in Sizes :
            \E r \in {Aes_Ctr(Machine, aesState, srcSize, Ptr("ivBuf", 0),
                             Ptr("streamBlock", 0), Ptr(Other(srcBuf), 0), Ptr(srcBuf, 0))} :
                /\ ModeReturned(r, Call("ctr", CY_CRYPTO_ENCRYPT, srcSize, r))
                /\ srcOffset' = r.srcOffset

Next == DoInit \/ DoFree \/ DoEcb \/ DoCbc \/ DoCfb \/ DoCtr

Spec == Init /\ [][Next]_vars

(* ------------------------------------------------------------------ *)
(* Two CRYPTO instances, each used by one caller for one mode call; the *)
(* statements of the two calls and the completions of the two           *)
(* accelerators interleave.                                             *)
(* ------------------------------------------------------------------ *)
Instances == 1..2

Merge(f, g) == [r \in DOMAIN f \cup DOMAIN g |-> IF r \in DOMAIN f THEN f[r] ELSE g[r]]
Restrict(f, d) == [r \in d |-> f[r]]

\* the registers and the scratch region of an instance before Init
FreshInstance ==
    [r \in ScratchRegs \cup HwRegs |->
        IF r = "AES_CTL" THEN <<0>> ELSE Fill(RegLen(r), 205)]

\* the key each instance is initialised with
InstanceKey(b) ==
    IF b = 1 THEN [key |-> Key1, keyLength |-> CY_CRYPTO_KEY_AES_128]
    ELSE [key |-> Key2, keyLength |-> CY_CRYPTO_KEY_AES_256]

InstanceInit(b) ==
    Aes_Init([mem |-> FreshInstance, log |-> <<>>],
             KeyBuffer(InstanceKey(b).key, KeyBytes(InstanceKey(b).keyLength), 0),
             InstanceKey(b).keyLength, Fill(CY_CRYPTO_AES_256_KEY_SIZE, 0))

\* Init on instance base with all contexts on one scratch region
ContextFor_OneRegion(base, st) == [st EXCEPT !.buffers = 1]

\* the context Init makes on instance base: its buffers are the scratch
\* region of that instance, REG_CRYPTO_MEM_BUFF(base)
ContextFor(base, st) == [st EXCEPT !.buffers = base]

CallerBuffers(i) ==
    [r \in CallerRegs |->
        CASE r = "bufA" -> IF i = 1 THEN Payload1 ELSE Fill(BufLen, 60 + i)
          [] r = "bufB" -> Fill(BufLen, 238)
          [] r = "ivBuf" -> IF i = 1 THEN IvLow ELSE IvWrap
          [] OTHER -> Fill(CY_CRYPTO_AES_BLOCK_SIZE, 85)]

\* the mode calls of the two callers
RunCalls(i) ==
    IF i = 1
    THEN {[op |-> "ecb", dirMode |-> d, srcSize |-> CY_CRYPTO_AES_BLOCK_SIZE] :
              d \in Directions}
         \cup {[op |-> o, dirMode |-> d, srcSize |-> n] :
                  o \in {"cbc", "cfb"}, d \in Directions, n \in {BufLen, BufLen - 8}}
         \cup {[op |-> "ctr", dirMode |-> CY_CRYPTO_ENCRYPT, srcSize |-> n] :
                  n \in {BufLen, BufLen - 8}}
    ELSE {[op |-> "cbc", dirMode |-> CY_CRYPTO_DECRYPT, srcSize |-> BufLen],
          [op |-> "cfb", dirMode |-> CY_CRYPTO_ENCRYPT, srcSize |-> CY_CRYPTO_AES_BLOCK_SIZE],
          [op |-> "ctr", dirMode |-> CY_CRYPTO_ENCRYPT, srcSize |-> BufLen - 8]}

\* the call c of caller i on instance i, at its entry
NewCall(i, c) ==
    [op |-> c.op, dirMode |-> c.dirMode, srcSize |-> c.srcSize,
     base |-> i, st |-> ContextFor(i, InstanceInit(i).st),
     ivPtr |-> Ptr("ivBuf", 0), src |-> Ptr("bufA", 0), dst |-> Ptr("bufB", 0),
     pc |-> "entry", wait |-> FALSE,
     size |-> 0, myResult |-> "none", encBuff |-> Ptr("block1", 0),
     counter |-> Fill(8, 0), i |-> 0, cnt |-> 0,
     status |-> "none", srcOffset |-> 0, log |-> <<>>, overlapped |-> FALSE]

StepsInit ==
    /\ hwmem = [b \in Instances |-> InstanceInit(b).m.mem]
    /\ bufs = [i \in Instances |-> CallerBuffers(i)]
    /\ \E c1 \in RunCalls(1), c2 \in RunCalls(2) :
           proc = [i \in Instances |-> NewCall(i, IF i = 1 THEN c1 ELSE c2)]
    /\ hw = [b \in Instances |-> [busy |-> FALSE, instr |-> NoInstr, by |-> b]]
    /\ mem = <<>> /\ aesState = NoState /\ srcOffset = 0 /\ srcBuf = "bufA"
    /\ live = FALSE /\ calls = 0 /\ last = NoCall /\ prev = NoCall
    /\ NetIdle
    /\ held = <<>>

InCall(i) == proc[i].pc \notin {"entry", "done"}

\* caller i executes the next statement of its call
CpuStep(i) ==
    /\ proc[i].pc # "done" /\ ~proc[i].wait
    /\ \E r \in {ModeStep([mem |-> Merge(hwmem[proc[i].st.buffers], bufs[i]),
                           log |-> proc[i].log], proc[i])} :
          /\ hwmem' = [hwmem EXCEPT ![proc[i].st.buffers] =
                          Restrict(r.m.mem, ScratchRegs \cup HwRegs)]
          /\ bufs' = [bufs EXCEPT ![i] = Restrict(r.m.mem, CallerRegs)]
          /\ proc' = [proc EXCEPT ![i] =
                         [r.l EXCEPT !.log = r.m.log,
                                     !.overlapped = @ \/ \E j \in Instances \ {i} : InCall(j)]]
          /\ hw' = IF r.instr.opc = "none" THEN hw
                   ELSE [hw EXCEPT ![proc[i].base] =
                            [busy |-> TRUE, instr |-> r.instr, by |-> i]]
    /\ UNCHANGED <<apiVars, netVars, ctxVars>>

\* the busy wait with its test the wrong way round
CpuWait_WhileIdle(i) ==
    /\ proc[i].wait /\ hw[proc[i].base].busy
    /\ proc' = [proc EXCEPT ![i].wait = FALSE]
    /\ UNCHANGED <<apiVars, netVars, ctxVars, hwmem, bufs, hw>>

\* while (0 != AES_BUSY) {}: the call goes on once the instance is not busy
CpuWait(i) ==
    /\ proc[i].wait /\ ~hw[proc[i].base].busy
    /\ proc' = [proc EXCEPT ![i].wait = FALSE]
    /\ UNCHANGED <<apiVars, netVars, ctxVars, hwmem, bufs, hw>>

\* the accelerator of instance b completes its instruction and clears busy
HwComplete(b) ==
    /\ hw[b].busy
    /\ \E r \in {HwRun([mem |-> hwmem[proc[hw[b].by].st.buffers],
                        log |-> proc[hw[b].by].log],
                       proc[hw[b].by].st, hw[b].instr)} :
          /\ hwmem' = [hwmem EXCEPT ![proc[hw[b].by].st.buffers] = r.mem]
          /\ proc' = [proc EXCEPT ![hw[b].by].log = r.log]
    /\ hw' = [hw EXCEPT ![b].busy = FALSE]
    /\ UNCHANGED <<apiVars, netVars, ctxVars, bufs>>

StepsNext == \E i \in Instances : CpuStep(i) \/ CpuWait(i) \/ HwComplete(i)

\* the callers keep running, and an accelerator that is busy completes
StepsFairness ==
    \A i \in Instances :
        WF_vars(CpuStep(i)) /\ WF_vars(CpuWait(i)) /\ WF_vars(HwComplete(i))

SpecSteps == StepsInit /\ [][StepsNext]_vars /\ StepsFairness

(* ------------------------------------------------------------------ *)
(* EthernetInterface.cpp: the socket arena and the connection of the    *)
(* interface.  A return value is "0" or the name of an NSAPI error      *)
(* (all of them negative numbers); a slot of the arena is its index,    *)
(* 0 the null pointer.                                                  *)
(* ------------------------------------------------------------------ *)
\* slots of the arena
MEMP_NUM_NETCONN == 2
\* calls of the network interface made in one behaviour
MaxNetCalls == 4
\* releases of lwip_netif_up that may be pending
MaxReleases == 1

NULL == "NULL"

NSAPI_ERRORS ==
    {"NSAPI_ERROR_WOULD_BLOCK", "NSAPI_ERROR_PARAMETER", "NSAPI_ERROR_NO_CONNECTION",
     "NSAPI_ERROR_NO_SOCKET", "NSAPI_ERROR_NO_MEMORY", "NSAPI_ERROR_DHCP_FAILURE",
     "NSAPI_ERROR_DEVICE_ERROR"}

IsNegative(ret) == ret \in NSAPI_ERRORS

lwip_err_remap(err) ==
    CASE err = "ERR_OK" -> "0"
      [] err = "ERR_MEM" -> "NSAPI_ERROR_NO_MEMORY"
      [] err \in {"ERR_CONN", "ERR_CLSD"} -> "NSAPI_ERROR_NO_CONNECTION"
      [] err \in {"ERR_TIMEOUT", "ERR_RTE", "ERR_INPROGRESS", "ERR_WOULDBLOCK"} ->
             "NSAPI_ERROR_WOULD_BLOCK"
      [] err \in {"ERR_VAL", "ERR_USE", "ERR_ISCONN", "ERR_ARG"} -> "NSAPI_ERROR_PARAMETER"
      [] OTHER -> "NSAPI_ERROR_DEVICE_ERROR"

\* memset(s, 0, sizeof *s)
ZeroSocket == [in_use |-> FALSE, conn |-> 0]

\* memset(lwip_arena, 0, sizeof lwip_arena)
lwip_arena_init == [i \in 1..MEMP_NUM_NETCONN |-> ZeroSocket]

\* lwip_arena_alloc without the mark that the slot is taken
lwip_arena_alloc_NoMark(arena) ==
    LET free == {i \in DOMAIN arena : ~arena[i].in_use}
    IN  IF free = {} THEN [s |-> 0, arena |-> arena]
        ELSE LET i == CHOOSE j \in free : \A k \in free : j <= k
             IN  [s |-> i, arena |-> [arena EXCEPT ![i] = ZeroSocket]]

\* the slot lwip_arena_alloc returns (0 when every slot is in use) and the
\* arena it leaves
lwip_arena_alloc(arena) ==
    LET free == {i \in DOMAIN arena : ~arena[i].in_use}
    IN  IF free = {} THEN [s |-> 0, arena |-> arena]
        ELSE LET i == CHOOSE j \in free : \A k \in free : j <= k
             IN  [s |-> i, arena |-> [arena EXCEPT ![i] = [ZeroSocket EXCEPT !.in_use = TRUE]]]

lwip_arena_dealloc(arena, s) == [arena EXCEPT ![s].in_use = FALSE]

ArenaFull(arena) == \A i \in DOMAIN arena : arena[i].in_use

lwip_get_mac_address == IF lwip_mac_addr # "" THEN lwip_mac_addr ELSE NULL

lwip_get_ip_address == IF lwip_ip_addr # "" THEN lwip_ip_addr ELSE NULL

\* what lwip_set_mac_address prints, and the address DHCP hands out
BoardMac == "00:02:f7:f0:00:00"
LeasedIp == "192.168.0.2"

\* the results of netconn_accept and of netconn_delete
AcceptErrs == {"ERR_OK", "ERR_TIMEOUT", "ERR_MEM"}
DeleteErrs == {"ERR_OK", "ERR_CONN"}

NetInit ==
    /\ lwip_arena = lwip_arena_init
    /\ lwip_ip_addr = "" /\ lwip_mac_addr = ""
    /\ lwip_netif_up = 0 /\ dhcp = FALSE
    /\ handles = {} /\ fault = FALSE
    /\ netCalls = 0 /\ netLast = NoNetCall
    /\ thr = <<>>
    /\ mem = <<>> /\ aesState = NoState /\ srcOffset = 0 /\ srcBuf = "bufA"
    /\ live = FALSE /\ calls = 0 /\ last = NoCall /\ prev = NoCall
    /\ hwmem = <<>> /\ bufs = <<>> /\ proc = <<>> /\ hw = <<>>
    /\ held = <<>>

NetCallable == ~fault /\ netCalls < MaxNetCalls

NetReturned(op, ret, nullSlot, full) ==
    /\ netCalls' = netCalls + 1
    /\ netLast' = [op |-> op, ret |-> ret, nullSlot |-> nullSlot, full |-> full]
    /\ UNCHANGED <<apiVars, runVars, ctxVars>>

\* EthernetInterface::connect: lwip_init
Connect ==
    /\ NetCallable
    /\ UNCHANGED thr
    /\ IF lwip_get_mac_address # NULL
       THEN /\ NetReturned("connect", "0", FALSE, FALSE)
            /\ UNCHANGED <<lwip_arena, lwip_ip_addr, lwip_mac_addr, lwip_netif_up,
                           dhcp, handles, fault>>
       ELSE /\ lwip_mac_addr' = BoardMac
            /\ dhcp' = TRUE
            /\ lwip_arena' = lwip_arena_init
            /\ UNCHANGED <<handles, fault>>
            /\ IF lwip_netif_up > 0
               THEN \* a release is pending: wait returns at once
                    /\ lwip_netif_up' = lwip_netif_up - 1
                    /\ UNCHANGED lwip_ip_addr
                    /\ NetReturned("connect", "0", FALSE, FALSE)
               ELSE \/ \* the interface comes up within the 15 s
                       /\ lwip_ip_addr' = LeasedIp
                       /\ UNCHANGED lwip_netif_up
                       /\ NetReturned("connect", "0", FALSE, FALSE)
                    \/ \* timeout
                       /\ UNCHANGED <<lwip_ip_addr, lwip_netif_up>>
                       /\ NetReturned("connect", "NSAPI_ERROR_DHCP_FAILURE", FALSE, FALSE)

\* EthernetInterface::disconnect: lwip_deinit
Disconnect ==
    /\ NetCallable
    /\ UNCHANGED thr
    /\ dhcp' = FALSE
    /\ lwip_ip_addr' = ""
    /\ lwip_mac_addr' = ""
    /\ NetReturned("disconnect", "0", FALSE, FALSE)
    /\ UNCHANGED <<lwip_arena, lwip_netif_up, handles, fault>>

\* lwip_netif_status_irq: the interface is up with an address
NetifStatusIrq ==
    /\ ~fault /\ dhcp /\ lwip_netif_up < MaxReleases
    /\ lwip_ip_addr' = LeasedIp
    /\ lwip_netif_up' = lwip_netif_up + 1
    /\ UNCHANGED <<apiVars, runVars, ctxVars, lwip_arena, lwip_mac_addr, dhcp, handles,
                   fault, netCalls, netLast, thr>>

SocketOpen ==
    /\ NetCallable
    /\ UNCHANGED thr
    /\ \E r \in {lwip_arena_alloc(lwip_arena)} :
          IF r.s = 0
          THEN /\ NetReturned("open", "NSAPI_ERROR_NO_SOCKET", FALSE, TRUE)
               /\ UNCHANGED <<lwip_arena, handles>>
          ELSE \/ \* netconn_new_with_callback gave a connection
                  /\ lwip_arena' = [r.arena EXCEPT ![r.s].conn = 1]
                  /\ handles' = handles \cup {r.s}
                  /\ NetReturned("open", "0", FALSE, FALSE)
               \/ \* it gave none
                  /\ lwip_arena' = lwip_arena_dealloc(r.arena, r.s)
                  /\ UNCHANGED handles
                  /\ NetReturned("open", "NSAPI_ERROR_NO_SOCKET", FALSE, FALSE)
    /\ UNCHANGED <<lwip_ip_addr, lwip_mac_addr, lwip_netif_up, dhcp, fault>>

SocketClose ==
    /\ NetCallable
    /\ UNCHANGED thr
    /\ \E h \in handles \ {0}, err \in DeleteErrs :
          /\ lwip_arena' = lwip_arena_dealloc(lwip_arena, h)
          /\ handles' = handles \ {h}
          /\ NetReturned("close", lwip_err_remap(err), FALSE, FALSE)
    /\ UNCHANGED <<lwip_ip_addr, lwip_mac_addr, lwip_netif_up, dhcp, fault>>

\* socket_accept.  When lwip_arena_alloc returns 0 the function goes on with
\* the null slot: &ns->conn is handed to netconn_accept and, on an error,
\* ns->in_use is written.  The access either stops the program or passes.
SocketAccept ==
    /\ NetCallable
    /\ UNCHANGED thr
    /\ \E server \in handles \ {0}, err \in AcceptErrs :
        \E r \in {lwip_arena_alloc(lwip_arena)} :
          IF r.s = 0
          THEN /\ UNCHANGED lwip_arena
               /\ \/ /\ fault' = TRUE
                     /\ UNCHANGED handles
                     /\ NetReturned("accept", "fault", TRUE, TRUE)
                  \/ /\ UNCHANGED fault
                     /\ handles' = IF err = "ERR_OK" THEN handles \cup {0} ELSE handles
                     /\ NetReturned("accept", lwip_err_remap(err), TRUE, TRUE)
          ELSE /\ UNCHANGED fault
               /\ IF err = "ERR_OK"
                  THEN /\ lwip_arena' = [r.arena EXCEPT ![r.s].conn = 1]
                       /\ handles' = handles \cup {r.s}
                  ELSE /\ lwip_arena' = lwip_arena_dealloc(r.arena, r.s)
                       /\ UNCHANGED handles
               /\ NetReturned("accept", lwip_err_remap(err), FALSE, FALSE)
    /\ UNCHANGED <<lwip_ip_addr, lwip_mac_addr, lwip_netif_up, dhcp>>

NetNext ==
    \/ Connect \/ Disconnect \/ NetifStatusIrq
    \/ SocketOpen \/ SocketClose \/ SocketAccept

SpecNet == NetInit /\ [][NetNext]_vars

(* ------------------------------------------------------------------ *)
(* Socket calls from several threads.  A call is cut where it can be    *)
(* overtaken: lwip_arena_alloc runs with interrupts off and is one      *)
(* step; netconn_new, netconn_accept and netconn_delete block, so the   *)
(* rest of the call is a second step.                                   *)
(* ------------------------------------------------------------------ *)
\* threads that call the socket functions
NumThreads == 2

Threads == 1..NumThreads

IdleThread == [pc |-> "idle", s |-> 0, err |-> "ERR_OK"]

SockInit ==
    /\ lwip_arena = lwip_arena_init
    /\ lwip_ip_addr = "" /\ lwip_mac_addr = ""
    /\ lwip_netif_up = 0 /\ dhcp = FALSE
    /\ handles = {} /\ fault = FALSE
    /\ netCalls = 0 /\ netLast = NoNetCall
    /\ thr = [t \in Threads |-> IdleThread]
    /\ mem = <<>> /\ aesState = NoState /\ srcOffset = 0 /\ srcBuf = "bufA"
    /\ live = FALSE /\ calls = 0 /\ last = NoCall /\ prev = NoCall
    /\ hwmem = <<>> /\ bufs = <<>> /\ proc = <<>> /\ hw = <<>>
    /\ held = <<>>

\* calls begun so far
SockStarted == netCalls + Cardinality({t \in Threads : thr[t].pc # "idle"})

SockCallable(t) == ~fault /\ thr[t].pc = "idle" /\ SockStarted < MaxNetCalls

\* a step inside a call: nothing is returned yet
SockInside ==
    UNCHANGED <<apiVars, runVars, ctxVars, netCalls, netLast>>

SockFrame == UNCHANGED <<lwip_ip_addr, lwip_mac_addr, lwip_netif_up, dhcp>>

\* socket_open up to the return of lwip_arena_alloc
OpenAlloc(t) ==
    /\ SockCallable(t)
    /\ \E r \in {lwip_arena_alloc(lwip_arena)} :
          IF r.s = 0
          THEN /\ NetReturned("open", "NSAPI_ERROR_NO_SOCKET", FALSE, TRUE)
               /\ UNCHANGED <<lwip_arena, thr>>
          ELSE /\ lwip_arena' = r.arena
               /\ thr' = [thr EXCEPT ![t] = [pc |-> "open_new", s |-> r.s, err |-> "ERR_OK"]]
               /\ SockInside
    /\ UNCHANGED <<handles, fault>>
    /\ SockFrame

\* socket_open from netconn_new_with_callback on
OpenNew(t) ==
    /\ ~fault /\ thr[t].pc = "open_new"
    /\ \/ /\ lwip_arena' = [lwip_arena EXCEPT ![thr[t].s].conn = 1]
          /\ handles' = handles \cup {thr[t].s}
          /\ NetReturned("open", "0", FALSE, FALSE)
       \/ /\ lwip_arena' = lwip_arena_dealloc(lwip_arena, thr[t].s)
          /\ UNCHANGED handles
          /\ NetReturned("open", "NSAPI_ERROR_NO_SOCKET", FALSE, FALSE)
    /\ thr' = [thr EXCEPT ![t] = IdleThread]
    /\ UNCHANGED fault
    /\ SockFrame

\* socket_close: netconn_delete
CloseDelete(t) ==
    /\ SockCallable(t)
    /\ \E h \in handles \ {0}, err \in DeleteErrs :
          /\ handles' = handles \ {h}
          /\ thr' = [thr EXCEPT ![t] = [pc |-> "close_dealloc", s |-> h, err |-> err]]
    /\ SockInside
    /\ UNCHANGED <<lwip_arena, fault>>
    /\ SockFrame

\* socket_close: lwip_arena_dealloc and the return
CloseDealloc(t) ==
    /\ ~fault /\ thr[t].pc = "close_dealloc"
    /\ lwip_arena' = lwip_arena_dealloc(lwip_arena, thr[t].s)
    /\ NetReturned("close", lwip_err_remap(thr[t].err), FALSE, FALSE)
    /\ thr' = [thr EXCEPT ![t] = IdleThread]
    /\ UNCHANGED <<handles, fault>>
    /\ SockFrame

\* socket_accept up to the call of netconn_accept
AcceptAlloc(t) ==
    /\ SockCallable(t)
    /\ handles \ {0} # {}
    /\ \E r \in {lwip_arena_alloc(lwip_arena)} :
          /\ lwip_arena' = r.arena
          /\ thr' = [thr EXCEPT ![t] = [pc |-> "accept_wait", s |-> r.s, err |-> "ERR_OK"]]
    /\ SockInside
    /\ UNCHANGED <<handles, fault>>
    /\ SockFrame

\* socket_accept from the return of netconn_accept on; with the null slot
\* the access either stops the program or passes
AcceptDone(t) ==
    /\ ~fault /\ thr[t].pc = "accept_wait"
    /\ \E err \in AcceptErrs :
          IF thr[t].s = 0
          THEN /\ UNCHANGED lwip_arena
               /\ \/ /\ fault' = TRUE
                     /\ UNCHANGED handles
                     /\ NetReturned("accept", "fault", TRUE, TRUE)
                  \/ /\ UNCHANGED fault
                     /\ handles' = IF err = "ERR_OK" THEN handles \cup {0} ELSE handles
                     /\ NetReturned("accept", lwip_err_remap(err), TRUE, TRUE)
          ELSE /\ UNCHANGED fault
               /\ IF err = "ERR_OK"
                  THEN /\ lwip_arena' = [lwip_arena EXCEPT ![thr[t].s].conn = 1]
                       /\ handles' = handles \cup {thr[t].s}
                  ELSE /\ lwip_arena' = lwip_arena_dealloc(lwip_arena, thr[t].s)
                       /\ UNCHANGED handles
               /\ NetReturned("accept", lwip_err_remap(err), FALSE, FALSE)
    /\ thr' = [thr EXCEPT ![t] = IdleThread]
    /\ SockFrame

SockNext ==
    \E t \in Threads :
        \/ OpenAlloc(t) \/ OpenNew(t)
        \/ CloseDelete(t) \/ CloseDealloc(t)
        \/ AcceptAlloc(t) \/ AcceptDone(t)

SockSpec == SockInit /\ [][SockNext]_vars

(* ------------------------------------------------------------------ *)
(* Calls on one buffer.  The caller of a mode function may pass the     *)
(* same pointer as dst and src.  AliasSpec starts from a context made   *)
(* by Aes_Init and makes mode calls whose destination is either the     *)
(* source buffer or the other buffer.                                   *)
(* ------------------------------------------------------------------ *)
\* mode calls made in one behaviour
MaxAliasCalls == 2

\* srcSize values: the whole buffer, and half a block less
AliasSizes == {BufLen, BufLen - 8}

InitialMem(v) ==
    [r \in ScratchRegs \cup CallerRegs \cup HwRegs |->
        CASE r = "bufA" -> Payload1
          [] r = "bufB" -> Fill(BufLen, 238)
          [] r = "ivBuf" -> v
          [] r = "streamBlock" -> Fill(CY_CRYPTO_AES_BLOCK_SIZE, 85)
          [] r = "AES_CTL" -> <<0>>
          [] OTHER -> Fill(RegLen(r), 205)]

AliasInit ==
    /\ \E v \in IVs :
        \E r \in {Aes_Init([mem |-> InitialMem(v), log |-> <<>>],
                           KeyBuffer(Key1, SuppliedKeyBytes(CY_CRYPTO_KEY_AES_128), 0),
                           CY_CRYPTO_KEY_AES_128,
                           Fill(CY_CRYPTO_AES_256_KEY_SIZE, 0))} :
            /\ mem = r.m.mem
            /\ aesState = r.st
    /\ srcOffset = 0
    /\ srcBuf = "bufA"
    /\ live = TRUE
    /\ calls = 0
    /\ last = NoCall
    /\ prev = NoCall
    /\ hwmem = <<>> /\ bufs = <<>> /\ proc = <<>> /\ hw = <<>>
    /\ NetIdle
    /\ held = <<>>

\* dst is src (in place) or the other buffer
DstFor(inPlace) == IF inPlace THEN srcBuf ELSE Other(srcBuf)

\* the caller feeds the next call the output of this one
AliasReturned(r, rec, dst) ==
    /\ Returned(r, [rec EXCEPT !.dst = dst])
    /\ srcBuf' = dst
    /\ UNCHANGED <<aesState, live, ctxVars>>

AliasEcb ==
    /\ calls < MaxAliasCalls
    /\ \E inPlace \in BOOLEAN, dirMode \in Directions :
        \E r \in {Aes_Ecb(Machine, aesState, dirMode,
                          Ptr(DstFor(inPlace), 0), Ptr(srcBuf, 0))} :
            /\ AliasReturned(r, Call("ecb", dirMode, CY_CRYPTO_AES_BLOCK_SIZE, r),
                             DstFor(inPlace))
            /\ UNCHANGED srcOffset

AliasCbc ==
    /\ calls < MaxAliasCalls
    /\ \E inPlace \in BOOLEAN, dirMode \in Directions, srcSize \in AliasSizes :
        \E r \in {Aes_Cbc(Machine, aesState, dirMode, srcSize, Ptr("ivBuf", 0),
                          Ptr(DstFor(inPlace), 0), Ptr(srcBuf, 0))} :
            /\ AliasReturned(r, Call("cbc", dirMode, srcSize, r), DstFor(inPlace))
            /\ UNCHANGED srcOffset

AliasCfb ==
    /\ calls < MaxAliasCalls
    /\ \E inPlace \in BOOLEAN, dirMode \in Directions, srcSize \in AliasSizes :
        \E r \in {Aes_Cfb(Machine, aesState, dirMode, srcSize, Ptr("ivBuf", 0),
                          Ptr(DstFor(inPlace), 0), Ptr(srcBuf, 0))} :
            /\ AliasReturned(r, Call("cfb", dirMode, srcSize, r), DstFor(inPlace))
            /\ UNCHANGED srcOffset

AliasCtr ==
    /\ calls < MaxAliasCalls
    /\ \E inPlace \in BOOLEAN, srcSize \in AliasSizes :
        \E r \in {Aes_Ctr(Machine, aesState, srcSize, Ptr("ivBuf", 0),
                          Ptr("streamBlock", 0), Ptr(DstFor(inPlace), 0), Ptr(srcBuf, 0))} :
            /\ AliasReturned(r, Call("ctr", CY_CRYPTO_ENCRYPT, srcSize, r), DstFor(inPlace))
            /\ srcOffset' = r.srcOffset

AliasNext == AliasEcb \/ AliasCbc \/ AliasCfb \/ AliasCtr

AliasSpec == AliasInit /\ [][AliasNext]_vars

(* ------------------------------------------------------------------ *)
(* Contexts kept by the caller.  Every Aes_Init fills a context the     *)
(* caller supplies; the caller may keep the context of an earlier Init  *)
(* and pass it to a later mode call.  held lists the contexts made so   *)
(* far with the key each was made from.                                 *)
(* ------------------------------------------------------------------ *)
\* API calls made in one behaviour
MaxCtxCalls == 3

\* Init arguments with a supported key length
CtxInitInputs == {a \in InitInputs : IsValidKeyLength(a.keyLength)}

CtxDoInit ==
    /\ calls < MaxCtxCalls
    /\ \E a \in CtxInitInputs :
        \E r \in {Aes_Init(Machine, KeyBuffer(a.key, SuppliedKeyBytes(a.keyLength),
                                              a.behind), a.keyLength, a.rsv)} :
            /\ Returned(r, [op |-> "init", keyLength |-> a.keyLength,
                            status |-> r.status, log |-> r.m.log])
            /\ aesState' = r.st
            /\ live' = TRUE
            /\ held' = Append(held, [st |-> r.st, key |-> a.key, keyLength |-> a.keyLength])
            /\ UNCHANGED <<srcOffset, srcBuf>>

CtxDoFree ==
    /\ calls < MaxCtxCalls
    /\ held # <<>>
    /\ \E r \in {[m |-> Aes_Free(Machine)]} :
           /\ Returned(r, [op |-> "free", log |-> r.m.log])
           /\ live' = FALSE
           /\ UNCHANGED <<aesState, srcOffset, srcBuf, held>>

\* an ecb call passed any of the contexts the caller holds
CtxDoEcb ==
    /\ calls < MaxCtxCalls
    /\ \E j \in 1..Len(held), dirMode \in Directions :
        \E r \in {Aes_Ecb(Machine, held[j].st, dirMode,
                          Ptr(Other(srcBuf), 0), Ptr(srcBuf, 0))} :
            /\ Returned(r, [Call("ecb", dirMode, CY_CRYPTO_AES_BLOCK_SIZE, r)
                               EXCEPT !.preState = held[j].st])
            /\ srcBuf' = Other(srcBuf)
            /\ UNCHANGED <<aesState, live, srcOffset, held>>

CtxNext == CtxDoInit \/ CtxDoFree \/ CtxDoEcb

CtxSpec == Init /\ [][CtxNext]_vars

(* ------------------------------------------------------------------ *)
(* Vocabulary of the properties                                         *)
(* ------------------------------------------------------------------ *)
IsModeCall(c) == c.op \in {"ecb", "cbc", "cfb", "ctr"}

WholeBlocks(n) == n % CY_CRYPTO_AES_BLOCK_SIZE = 0

First(bytes, n) == SubSeq(bytes, 1, n)

Zeros(n) == Fill(n, 0)

\* last decrypted, with the same mode, size, iv and key, what prev encrypted:
\* the source of last is the buffer prev wrote
IsRoundTrip(op) ==
    /\ prev.op = op /\ last.op = op
    /\ prev.dirMode = CY_CRYPTO_ENCRYPT /\ last.dirMode = CY_CRYPTO_DECRYPT
    /\ last.src = prev.dst
    /\ last.srcSize = prev.srcSize
    /\ last.pre["ivBuf"] = prev.pre["ivBuf"]
    /\ last.pre["key"] = prev.pre["key"]
    /\ last.pre["AES_CTL"] = prev.pre["AES_CTL"]
    /\ prev.preLive /\ last.preLive

Plaintext == First(prev.pre[prev.src], prev.srcSize)
Ciphertext == First(last.pre[last.src], last.srcSize)
Decrypted == First(mem[last.dst], last.srcSize)

\* C1: CBC round trip. Decrypting with cbc, under the same iv and key, what
\* cbc encrypted from a payload of whole blocks gives back the payload, and
\* both calls return CY_CRYPTO_SUCCESS.
C1_CbcRoundTrip ==
    (IsRoundTrip("cbc") /\ WholeBlocks(prev.srcSize))
        => /\ prev.status = CY_CRYPTO_SUCCESS
           /\ last.status = CY_CRYPTO_SUCCESS
           /\ Decrypted = Plaintext

C1_Witness ==
    /\ IsRoundTrip("cbc")
    /\ prev.srcSize = BufLen
    /\ Ciphertext # Plaintext
    /\ Decrypted = Plaintext

\* C2: CFB round trip. Decrypting with cfb, under the same iv and key, what
\* cfb encrypted from a payload of whole blocks gives back the payload.
C2_CfbRoundTrip ==
    (IsRoundTrip("cfb") /\ WholeBlocks(prev.srcSize))
        => /\ last.status = CY_CRYPTO_SUCCESS
           /\ Decrypted = Plaintext

C2_Witness ==
    /\ IsRoundTrip("cfb")
    /\ prev.srcSize = BufLen
    /\ Ciphertext # Plaintext
    /\ Decrypted = Plaintext

\* C3: ECB round trip. In a context made by Init from a valid key, the ecb
\* decryption (inverse-key slot) of the ecb encryption (key slot) of a
\* 16-byte block is that block.
C3_EcbRoundTrip ==
    (prev.op = "ecb" /\ last.op = "ecb"
     /\ prev.dirMode = CY_CRYPTO_ENCRYPT /\ last.dirMode = CY_CRYPTO_DECRYPT
     /\ last.src = prev.dst
     /\ prev.preLive /\ last.preLive)
        => First(mem[last.dst], CY_CRYPTO_AES_BLOCK_SIZE)
               = First(prev.pre[prev.src], CY_CRYPTO_AES_BLOCK_SIZE)

C3_Witness ==
    /\ prev.op = "ecb" /\ last.op = "ecb"
    /\ prev.dirMode = CY_CRYPTO_ENCRYPT /\ last.dirMode = CY_CRYPTO_DECRYPT
    /\ prev.preLive /\ last.preLive
    /\ <<"transform", CY_CRYPTO_ENCRYPT, "key">>
           \in {SubSeq(prev.log[i], 1, 3) : i \in DOMAIN prev.log}
    /\ <<"transform", CY_CRYPTO_DECRYPT, "keyInv">>
           \in {SubSeq(last.log[i], 1, 3) : i \in DOMAIN last.log}
    /\ First(last.pre[last.src], CY_CRYPTO_AES_BLOCK_SIZE)
           # First(prev.pre[prev.src], CY_CRYPTO_AES_BLOCK_SIZE)
    /\ First(mem[last.dst], CY_CRYPTO_AES_BLOCK_SIZE)
           = First(prev.pre[prev.src], CY_CRYPTO_AES_BLOCK_SIZE)

\* the state a recorded call started from, as a machine
PreMachine(c) == [mem |-> c.pre, log |-> <<>>]

\* n sequential one-block ctr calls on blocks k, k+1, ... of the buffers of
\* call c, each given the iv buffer as the call before it left it
RECURSIVE CtrBlockByBlock(_, _, _, _)
CtrBlockByBlock(m, c, k, n) ==
    IF k < n
    THEN CtrBlockByBlock(
             Aes_Ctr(m, c.preState, CY_CRYPTO_AES_BLOCK_SIZE, Ptr("ivBuf", 0),
                     Ptr("streamBlock", 0),
                     Ptr(c.dst, k * CY_CRYPTO_AES_BLOCK_SIZE),
                     Ptr(c.src, k * CY_CRYPTO_AES_BLOCK_SIZE)).m,
             c, k + 1, n)
    ELSE m

\* one ctr call on the concatenation of the sources of prev and last, from
\* the state prev started from
CtrInOneCall ==
    LET stream == First(prev.pre[prev.src], prev.srcSize)
                      \o First(last.pre[last.src], last.srcSize)
        m0 == [PreMachine(prev) EXCEPT
                  !.mem = [r \in DOMAIN @ |->
                              IF r = "bufA" THEN stream
                              ELSE IF r = "bufB" THEN Zeros(Len(stream))
                              ELSE @[r]]]
    IN  Aes_Ctr(m0, prev.preState, Len(stream), Ptr("ivBuf", 0),
                Ptr("streamBlock", 0), Ptr("bufB", 0), Ptr("bufA", 0)).m

IsCtrSplit ==
    /\ prev.op = "ctr" /\ last.op = "ctr"
    /\ WholeBlocks(prev.srcSize) /\ WholeBlocks(last.srcSize)

\* C4: CTR resumability. A ctr call on n whole blocks leaves the same output
\* bytes and the same iv as n sequential one-block ctr calls that pass the
\* iv on; and two consecutive whole-block ctr calls that pass the iv on leave
\* the same output and iv as one call on the concatenated payload.
C4_CtrResumable ==
    /\ (last.op = "ctr" /\ WholeBlocks(last.srcSize)) =>
          LET m == CtrBlockByBlock(PreMachine(last), last, 0,
                                   last.srcSize \div CY_CRYPTO_AES_BLOCK_SIZE)
          IN  /\ First(m.mem[last.dst], last.srcSize) = First(mem[last.dst], last.srcSize)
              /\ m.mem["ivBuf"] = mem["ivBuf"]
    /\ IsCtrSplit =>
          LET m == CtrInOneCall
          IN  /\ m.mem["bufB"] = First(last.pre[prev.dst], prev.srcSize)
                                     \o First(mem[last.dst], last.srcSize)
              /\ m.mem["ivBuf"] = mem["ivBuf"]

C4_Witness ==
    /\ IsCtrSplit
    /\ prev.srcSize = CY_CRYPTO_AES_BLOCK_SIZE
    /\ last.srcSize = BufLen
    /\ mem["ivBuf"] # last.pre["ivBuf"]
    /\ last.pre["ivBuf"] # prev.pre["ivBuf"]
    /\ CtrInOneCall.mem["bufB"] = First(last.pre[prev.dst], prev.srcSize)
                                      \o First(mem[last.dst], last.srcSize)

\* the 64-bit big-endian number in bytes 8..15 of an iv block, as its 8
\* bytes, most significant first
CounterOf(iv) == SubSeq(iv, 9, 16)
NonceOf(iv) == SubSeq(iv, 1, 8)

\* b + n modulo 2^64, for a big-endian 8-byte number b and n < 256
PlusBE(b, n) ==
    [i \in 1..8 |->
        IF i = 8 THEN (b[8] + n) % 256
        ELSE IF b[8] + n >= 256 /\ \A j \in (i + 1)..7 : b[j] = 255
             THEN (b[i] + 1) % 256
             ELSE b[i]]

\* C5: CTR counter arithmetic. After a ctr call on N full blocks, bytes
\* 8..15 of the iv written back, read as a big-endian 64-bit number, are the
\* initial number plus N modulo 2^64, and bytes 0..7 (the nonce) are as they
\* were.
C5_CtrCounter ==
    last.op = "ctr" =>
        /\ CounterOf(mem["ivBuf"])
               = PlusBE(CounterOf(last.pre["ivBuf"]),
                        last.srcSize \div CY_CRYPTO_AES_BLOCK_SIZE)
        /\ NonceOf(mem["ivBuf"]) = NonceOf(last.pre["ivBuf"])

\* the counter wrapped from 2^64 - 1 to 0 and went on to 1
C5_Witness ==
    /\ last.op = "ctr"
    /\ last.srcSize = 2 * CY_CRYPTO_AES_BLOCK_SIZE
    /\ CounterOf(last.pre["ivBuf"]) = Fill(8, 255)
    /\ CounterOf(mem["ivBuf"]) = [i \in 1..8 |-> IF i = 8 THEN 1 ELSE 0]
    /\ NonceOf(mem["ivBuf"]) = NonceOf(IvWrap)

\* the primitive steps of a call that use the accelerator's transform or XOR
AcceleratorSteps(c) ==
    {i \in DOMAIN c.log : c.log[i][1] \in {"transform", "xor16"}}

IsMisalignedChainCall(c) ==
    /\ c.op \in {"cbc", "cfb"}
    /\ ~WholeBlocks(c.srcSize)

\* C6: misaligned size rejection for CBC and CFB. In either direction a cbc
\* or cfb call whose srcSize is not a multiple of 16 returns
\* CY_CRYPTO_SIZE_NOT_X16, issues no transform and no xor16, and leaves every
\* byte of dst as it was.
C6_MisalignedRejected ==
    IsMisalignedChainCall(last)
        => /\ last.status = CY_CRYPTO_SIZE_NOT_X16
           /\ AcceleratorSteps(last) = {}
           /\ mem[last.dst] = last.pre[last.dst]

\* a cbc call and then a cfb call, both with a misaligned size
C6_Witness ==
    /\ IsMisalignedChainCall(prev) /\ prev.op = "cbc"
    /\ IsMisalignedChainCall(last) /\ last.op = "cfb"
    /\ last.srcSize > CY_CRYPTO_AES_BLOCK_SIZE
    /\ last.status = CY_CRYPTO_SIZE_NOT_X16
    /\ mem = last.pre

\* what the accelerator makes of the first block of the source of call c
TransformOfFirstBlock(c) ==
    IF c.dirMode = CY_CRYPTO_DECRYPT
    THEN HW_AesBlockInv(c.pre["keyInv"], KeySizeField(c.pre),
                        First(c.pre[c.src], CY_CRYPTO_AES_BLOCK_SIZE))
    ELSE HW_AesBlock(c.pre["key"], KeySizeField(c.pre),
                     First(c.pre[c.src], CY_CRYPTO_AES_BLOCK_SIZE))

ScratchIsZero == \A r \in ScratchRegs : mem[r] = Zeros(RegLen(r))

\* C9: context wipe. After Free, following any sequence of Init and mode
\* calls, every byte of the scratch region (key slot, inverse-key slot,
\* block0, block1, block2, iv slot) is zero; Free again leaves it zero.
C9_FreeWipes ==
    last.op = "free" => ScratchIsZero

\* Free after a ctr call that used every slot of the scratch region
C9_Witness ==
    /\ last.op = "free"
    /\ prev.op = "ctr" /\ prev.srcSize >= CY_CRYPTO_AES_BLOCK_SIZE
    /\ prev.preLive
    /\ ScratchIsZero

\* C10: the caller's iv buffer is not written by a cbc call nor by a cfb
\* call, in any direction and for any size: its bytes after the call are its
\* bytes before it.
C10_IvNotWritten ==
    last.op \in {"cbc", "cfb"} => mem["ivBuf"] = last.pre["ivBuf"]

\* a cbc call of several blocks: the chain value in the scratch iv slot has
\* moved on, the caller's iv has not
C10_Witness ==
    /\ last.op = "cbc"
    /\ last.srcSize = BufLen
    /\ last.status = CY_CRYPTO_SUCCESS
    /\ mem["iv"] # last.pre["ivBuf"]
    /\ mem["ivBuf"] = last.pre["ivBuf"]

\* the steps of a call of one kind
StepsOf(c, kind) == {i \in DOMAIN c.log : c.log[i][1] = kind}

\* the copies of a call into region r
CopiesTo(c, r) == {i \in DOMAIN c.log : c.log[i][1] = "copy" /\ c.log[i][2] = r}

FullBlocks(c) == c.srcSize \div CY_CRYPTO_AES_BLOCK_SIZE

\* C11: CTR accepts every size. Whatever srcSize is (a multiple of 16 or not,
\* 0 included) a ctr call returns CY_CRYPTO_SUCCESS, processes exactly
\* floor(srcSize / 16) blocks (that many transforms, XORs and copies to dst;
\* the bytes of dst behind them stay as they were), ends by copying the
\* scratch iv slot to the caller's iv, and sets srcOffset to srcSize mod 16.
C11_CtrAnySize ==
    last.op = "ctr" =>
        /\ last.status = CY_CRYPTO_SUCCESS
        /\ Cardinality(StepsOf(last, "transform")) = FullBlocks(last)
        /\ Cardinality(StepsOf(last, "xor16")) = FullBlocks(last)
        /\ Cardinality(CopiesTo(last, last.dst)) = FullBlocks(last)
        /\ \A i \in (FullBlocks(last) * CY_CRYPTO_AES_BLOCK_SIZE + 1)..BufLen :
               mem[last.dst][i] = last.pre[last.dst][i]
        /\ last.log[Len(last.log)] = <<"copy", "ivBuf", "iv", CY_CRYPTO_AES_BLOCK_SIZE>>
        /\ mem["ivBuf"] = mem["iv"]
        /\ srcOffset = last.srcSize % CY_CRYPTO_AES_BLOCK_SIZE

\* a ctr call on whole blocks and half a block: the whole blocks processed,
\* srcOffset 8
C11_Witness ==
    /\ last.op = "ctr"
    /\ ~WholeBlocks(last.srcSize) /\ FullBlocks(last) >= 1
    /\ last.status = CY_CRYPTO_SUCCESS
    /\ Cardinality(StepsOf(last, "transform")) = FullBlocks(last)
    /\ mem["ivBuf"] # last.pre["ivBuf"]
    /\ srcOffset = 8

\* the regions step s reads
ReadsOf(s) ==
    CASE s[1] = "copy" -> {s[3]}
      [] s[1] = "transform" -> {s[3], s[5]}
      [] s[1] = "xor16" -> {s[3], s[4]}
      [] s[1] = "invkey" -> {s[3]}
      [] OTHER -> {}

\* the regions step s writes
WritesOf(s) ==
    CASE s[1] = "transform" -> {s[4]}
      [] s[1] = "set" -> ScratchRegs
      [] OTHER -> {s[2]}

\* C12: CFB and CTR use the forward transform only. In a cfb call of either
\* direction and in a ctr call, every transform issued has direction
\* CY_CRYPTO_ENCRYPT and the key slot as its key, and no step reads the
\* inverse-key slot.
C12_ForwardOnly ==
    last.op \in {"cfb", "ctr"} =>
        \A i \in DOMAIN last.log :
            /\ last.log[i][1] = "transform" =>
                   /\ last.log[i][2] = CY_CRYPTO_ENCRYPT
                   /\ last.log[i][3] = "key"
            /\ "keyInv" \notin ReadsOf(last.log[i])

\* a cfb DECRYPT call and a ctr call, each of several blocks
C12_Witness ==
    /\ prev.op = "ctr" /\ prev.srcSize = BufLen
    /\ last.op = "cfb" /\ last.dirMode = CY_CRYPTO_DECRYPT /\ last.srcSize = BufLen
    /\ Cardinality(StepsOf(prev, "transform")) = MaxBlocks
    /\ Cardinality(StepsOf(last, "transform")) = MaxBlocks
    /\ \A i \in StepsOf(last, "transform") : last.log[i][2] = CY_CRYPTO_ENCRYPT

\* the slots of the scratch region a mode call may use as working storage
WorkingRegs == {"block0", "block1", "block2", "iv"}

\* C13: mode calls use the context's slots read-only. No ecb, cbc, cfb or
\* ctr call, of any direction and size, changes a byte of the key slot or of
\* the inverse-key slot (or the key size register); of the scratch region its
\* steps write only the working blocks and the iv slot.
C13_KeySlotsReadOnly ==
    IsModeCall(last) =>
        /\ mem["key"] = last.pre["key"]
        /\ mem["keyInv"] = last.pre["keyInv"]
        /\ mem["AES_CTL"] = last.pre["AES_CTL"]
        /\ \A i \in DOMAIN last.log :
               WritesOf(last.log[i]) \cap ScratchRegs \subseteq WorkingRegs

\* an ecb call and a ctr call that wrote working blocks and left the key
\* slots, which hold a key and its inverse, as they were
C13_Witness ==
    /\ prev.op = "ctr" /\ prev.srcSize = BufLen
    /\ last.op = "ecb" /\ last.preLive
    /\ mem["block0"] # last.pre["block0"]
    /\ mem["block1"] # last.pre["block1"]
    /\ last.pre["iv"] # prev.pre["iv"]
    /\ mem["key"] = prev.pre["key"] /\ mem["key"] # Zeros(CY_CRYPTO_AES_256_KEY_SIZE)
    /\ mem["keyInv"] = prev.pre["keyInv"]

\* the bytes the copies of call c read at the caller's key pointer
KeyBytesRead(c) ==
    {c.log[i][4] : i \in {j \in DOMAIN c.log :
                             c.log[j][1] = "copy" /\ c.log[j][3] = "keyBuf"}}

\* C14: Init copies a key of the size its length class gives. For a key of
\* class 128, 192 or 256 bits Init reads exactly 16, 24 or 32 bytes at the
\* caller's key pointer, never a byte behind the supplied key.
C14_InitReadsKeyLength ==
    (last.op = "init" /\ IsValidKeyLength(last.keyLength))
        => KeyBytesRead(last) = {KeyBytes(last.keyLength)}

\* the phase of the per-call state machine a step of call c belongs to; the
\* copies of the iv and of the chain block inside the scratch region belong
\* to none
PhaseOf(c, s) ==
    CASE s[1] = "copy" /\ s[3] = c.src -> "Staging"
      [] s[1] = "copy" /\ s[2] = c.dst -> "Emit"
      [] s[1] = "transform" -> "Transform"
      [] s[1] = "xor16" -> "Combine"
      [] OTHER -> "none"

\* the phases call c went through, in order
PhasesOf(c) ==
    SelectSeq([i \in DOMAIN c.log |-> PhaseOf(c, c.log[i])] \o <<>>,
              LAMBDA p : p # "none")

RECURSIVE Repeat(_, _)
Repeat(pattern, n) == IF n <= 0 THEN <<>> ELSE pattern \o Repeat(pattern, n - 1)

\* the blocks call c processes
BlocksOf(c) ==
    IF c.status # CY_CRYPTO_SUCCESS THEN 0
    ELSE IF c.op = "ecb" THEN 1
    ELSE FullBlocks(c)

\* the order of the phases of one block in the mode and direction of call c
BlockPattern(c) ==
    CASE c.op = "ecb" -> <<"Staging", "Transform", "Emit">>
      [] c.op = "cbc" /\ c.dirMode = CY_CRYPTO_ENCRYPT ->
             <<"Staging", "Combine", "Transform", "Emit">>
      [] c.op = "cfb" -> <<"Transform", "Staging", "Combine", "Emit">>
      [] OTHER -> <<"Staging", "Transform", "Combine", "Emit">>

\* C15 as stated: in every mode call the phases of each block are Staging,
\* Transform, Combine, Emit in this order, block after block.
C15_StagingTransformCombineEmit ==
    IsModeCall(last) =>
        PhasesOf(last) = Repeat(<<"Staging", "Transform", "Combine", "Emit">>,
                                BlocksOf(last))

\* C15, amended: in every mode call the blocks are processed one after the
\* other, every phase of block i before any phase of block i+1, and a call
\* that is rejected goes through no phase. Within a block the order is
\* Staging, Transform, Combine, Emit in cbc DECRYPT and in ctr; Staging,
\* Combine, Transform, Emit in cbc ENCRYPT; Transform, Staging, Combine, Emit
\* in cfb; and Staging, Transform, Emit (no Combine) in ecb.
C15_PhaseOrder ==
    IsModeCall(last) =>
        PhasesOf(last) = Repeat(BlockPattern(last), BlocksOf(last))

\* a cbc ENCRYPT call of several blocks, after a cfb call of several blocks
C15_Witness ==
    /\ prev.op = "cfb" /\ prev.srcSize = BufLen
    /\ last.op = "cbc" /\ last.dirMode = CY_CRYPTO_ENCRYPT /\ last.srcSize = BufLen
    /\ PhasesOf(last) = Repeat(<<"Staging", "Combine", "Transform", "Emit">>, MaxBlocks)
    /\ PhasesOf(prev) = Repeat(<<"Transform", "Staging", "Combine", "Emit">>, MaxBlocks)

Done(i) == proc[i].pc = "done"

\* the blocks a call that succeeds has to emit
BlocksDue(l) == IF l.op = "ecb" THEN 1 ELSE l.srcSize \div CY_CRYPTO_AES_BLOCK_SIZE

\* how the call of caller i ended: rejected with nothing done, or successful
\* with every block emitted and the accelerator idle
RunOutcome(i) ==
    \/ /\ proc[i].status = CY_CRYPTO_SIZE_NOT_X16
       /\ proc[i].log = <<>>
       /\ hw[proc[i].base].instr = NoInstr
       /\ bufs[i]["bufB"] = CallerBuffers(i)["bufB"]
    \/ /\ proc[i].status = CY_CRYPTO_SUCCESS
       /\ ~hw[proc[i].base].busy
       /\ Cardinality(CopiesTo(proc[i], "bufB")) = BlocksDue(proc[i])
       /\ Cardinality(StepsOf(proc[i], "transform")) = BlocksDue(proc[i])

\* C16: a mode call runs to completion or fails before starting. Given that
\* the callers keep running and every accelerator instruction completes, each
\* ecb, cbc, cfb and ctr call returns; and when it has returned it either
\* reports an error, having issued no accelerator instruction and written no
\* byte of dst, or reports CY_CRYPTO_SUCCESS with all its blocks (srcSize / 16;
\* one for ecb) emitted: never a part of them.
C16_RunsToCompletion ==
    /\ [](\A i \in Instances : Done(i) => RunOutcome(i))
    /\ \A i \in Instances : <>Done(i)

\* one call was rejected, the other emitted all its blocks
C16_Witness ==
    /\ Done(1) /\ proc[1].status = CY_CRYPTO_SIZE_NOT_X16
    /\ proc[1].log = <<>>
    /\ Done(2) /\ proc[2].status = CY_CRYPTO_SUCCESS
    /\ proc[2].op = "cbc"
    /\ Cardinality(CopiesTo(proc[2], "bufB")) = MaxBlocks

\* the call of caller i run on its own, in one piece, from the initial state
\* of its instance and buffers: [m, status, srcOffset]
Alone(i) ==
    LET m0 == [mem |-> Merge(InstanceInit(i).m.mem, CallerBuffers(i)), log |-> <<>>]
        st == InstanceInit(i).st
        iv == Ptr("ivBuf", 0)
        src == Ptr("bufA", 0)
        dst == Ptr("bufB", 0)
        c == proc[i]
        r == CASE c.op = "ecb" -> Aes_Ecb(m0, st, c.dirMode, dst, src)
               [] c.op = "cbc" -> Aes_Cbc(m0, st, c.dirMode, c.srcSize, iv, dst, src)
               [] c.op = "cfb" -> Aes_Cfb(m0, st, c.dirMode, c.srcSize, iv, dst, src)
               [] c.op = "ctr" -> Aes_Ctr(m0, st, c.srcSize, iv, Ptr("streamBlock", 0),
                                          dst, src)
    IN  [m |-> r.m, status |-> r.status,
         srcOffset |-> IF c.op = "ctr" THEN r.srcOffset ELSE 0]

\* C17: calls on two independent instances do not affect each other. However
\* the statements of two mode calls on different instances (each with its own
\* scratch region and context) interleave, when a call has returned its
\* status, its srcOffset and the caller's buffers (dst, iv, src) are those of
\* the call run alone.
C17_Independent ==
    \A i \in Instances :
        Done(i) =>
            \E a \in {Alone(i)} :
                /\ bufs[i] = Restrict(a.m.mem, CallerRegs)
                /\ proc[i].status = a.status
                /\ proc[i].srcOffset = a.srcOffset

\* both calls returned with output, each having run while the other was in
\* progress
C17_Witness ==
    \A i \in Instances :
        /\ Done(i) /\ proc[i].overlapped
        /\ proc[i].status = CY_CRYPTO_SUCCESS
        /\ proc[i].srcSize >= CY_CRYPTO_AES_BLOCK_SIZE
        /\ bufs[i]["bufB"] # CallerBuffers(i)["bufB"]
        /\ bufs[i] = Restrict(Alone(i).m.mem, CallerRegs)

\* C18: socket_accept reports every failure. socket_accept returns 0 on
\* success and a negative error code on every failure, the arena having no
\* free slot when it is called included, and never uses a null arena slot.
C18_AcceptReportsFailure ==
    netLast.op = "accept" =>
        /\ ~netLast.nullSlot
        /\ netLast.ret = "0" \/ IsNegative(netLast.ret)
        /\ netLast.full => IsNegative(netLast.ret)

\* C19: connect returns 0 only when connected. In any sequence of connect and
\* disconnect calls, when connect has returned 0 get_ip_address returns an
\* address, not null; so also for a connect that follows one that failed
\* with NSAPI_ERROR_DHCP_FAILURE.
C19_ConnectedHasAddress ==
    (netLast.op = "connect" /\ netLast.ret = "0") => lwip_get_ip_address # NULL


\* block i of a buffer
BlockAt(bytes, i) ==
    SubSeq(bytes, (i - 1) * CY_CRYPTO_AES_BLOCK_SIZE + 1, i * CY_CRYPTO_AES_BLOCK_SIZE)

\* the reference decryption of one block under the key the call found in the
\* key slot
RefD(c, block) ==
    HW_AesBlockInv(HW_AesKey(c.pre["key"], KeySizeField(c.pre), Zeros(CY_CRYPTO_AES_256_KEY_SIZE)),
                   KeySizeField(c.pre), block)

\* c_(i-1): the iv for the first block, else the previous source block
RefChain(c, i) ==
    IF i = 1 THEN c.pre["ivBuf"] ELSE BlockAt(c.pre[c.src], i - 1)

IsCbcDecrypt(c) ==
    /\ c.op = "cbc" /\ c.dirMode = CY_CRYPTO_DECRYPT
    /\ WholeBlocks(c.srcSize) /\ c.preLive

\* C20: CBC decrypt matches the reference. With c_0 = iv, block i of the
\* output of a cbc decrypt is D(c_i) XOR c_(i-1), c_(i-1) being the previous
\* source block, and the chain block is replaced by the current source block
\* only after the XOR that makes the output block.
C20_CbcDecryptReference ==
    IsCbcDecrypt(last) =>
        /\ \A i \in 1..(last.srcSize \div CY_CRYPTO_AES_BLOCK_SIZE) :
              BlockAt(mem[last.dst], i) =
                  HW_Xor(RefD(last, BlockAt(last.pre[last.src], i)), RefChain(last, i))
        /\ \A k \in 2..Len(last.log) :
              last.log[k] = <<"copy", "iv", "block0", CY_CRYPTO_AES_BLOCK_SIZE>>
                  => last.log[k - 1] = <<"xor16", "block1", "iv", "block1">>
        /\ Cardinality({k \in 1..Len(last.log) :
                           last.log[k] = <<"copy", "iv", "block0", CY_CRYPTO_AES_BLOCK_SIZE>>})
             = last.srcSize \div CY_CRYPTO_AES_BLOCK_SIZE

C20_Witness ==
    /\ IsCbcDecrypt(last)
    /\ last.srcSize >= 2 * CY_CRYPTO_AES_BLOCK_SIZE
    /\ BlockAt(last.pre[last.src], 1) # last.pre["ivBuf"]
    /\ BlockAt(mem[last.dst], 2) =
           HW_Xor(RefD(last, BlockAt(last.pre[last.src], 2)), BlockAt(last.pre[last.src], 1))
    /\ BlockAt(mem[last.dst], 2) # RefD(last, BlockAt(last.pre[last.src], 2))


\* the reference forward transform of one block under the key the call found
\* in the key slot
RefE(c, block) == HW_AesBlock(c.pre["key"], KeySizeField(c.pre), block)

NumBlocks(c) == c.srcSize \div CY_CRYPTO_AES_BLOCK_SIZE

IsCfb(c) == c.op = "cfb" /\ WholeBlocks(c.srcSize) /\ c.preLive

\* ciphertext block i of a cfb call: emitted when encrypting, read when
\* decrypting
CfbCipherBlock(c, out, i) ==
    IF c.dirMode = CY_CRYPTO_DECRYPT THEN BlockAt(c.pre[c.src], i) ELSE BlockAt(out, i)

CfbFeed(c, out, i) == IF i = 1 THEN c.pre["ivBuf"] ELSE CfbCipherBlock(c, out, i - 1)

\* C21: CFB feed rule. In both directions the ENCRYPT transform of block 1
\* takes the iv and that of block i+1 takes ciphertext block i (the emitted
\* block when encrypting, the source block when decrypting); each emitted
\* block is the source block XOR the output of that transform.
C21_CfbFeedRule ==
    IsCfb(last) =>
        /\ \A i \in 1..NumBlocks(last) :
              BlockAt(mem[last.dst], i) =
                  HW_Xor(BlockAt(last.pre[last.src], i),
                         RefE(last, CfbFeed(last, mem[last.dst], i)))
        /\ \A k \in 1..Len(last.log) :
              last.log[k][1] = "transform" =>
                  /\ last.log[k][2] = CY_CRYPTO_ENCRYPT
                  /\ last.log[k][5] =
                        (IF last.dirMode = CY_CRYPTO_DECRYPT THEN "block0" ELSE "block1")

C21_Witness ==
    /\ IsCfb(last) /\ last.dirMode = CY_CRYPTO_DECRYPT
    /\ NumBlocks(last) >= 2
    /\ BlockAt(mem[last.dst], 2) =
           HW_Xor(BlockAt(last.pre[last.src], 2), RefE(last, BlockAt(last.pre[last.src], 1)))
    /\ BlockAt(mem[last.dst], 1) # BlockAt(last.pre[last.src], 1)
    /\ prev.op = "cfb" /\ prev.dirMode = CY_CRYPTO_ENCRYPT /\ NumBlocks(prev) >= 2


\* nonce || counter0 + i, for the iv the call was given
CounterBlock(c, i) ==
    AsSeq(NonceOf(c.pre["ivBuf"])) \o AsSeq(PlusBE(CounterOf(c.pre["ivBuf"]), i))

IsCtr(c) == c.op = "ctr" /\ c.preLive

\* C22: CTR keystream. Block i (from 0) emitted by a ctr call is the source
\* block XOR E(nonce || counter0 + i mod 2^64): the keystream block comes
\* from the counter before that block's increment, and the counter goes up
\* by one from one transform to the next.
C22_CtrKeystream ==
    IsCtr(last) =>
        \A i \in 0..(FullBlocks(last) - 1) :
            BlockAt(mem[last.dst], i + 1) =
                HW_Xor(BlockAt(last.pre[last.src], i + 1), RefE(last, CounterBlock(last, i)))

\* two blocks, the counter wrapping between them
C22_Witness ==
    /\ IsCtr(last) /\ FullBlocks(last) >= 2
    /\ CounterOf(last.pre["ivBuf"]) = Fill(8, 255)
    /\ BlockAt(mem[last.dst], 2) =
           HW_Xor(BlockAt(last.pre[last.src], 2),
                  RefE(last, AsSeq(NonceOf(last.pre["ivBuf"])) \o Zeros(8)))
    /\ RefE(last, CounterBlock(last, 0)) # RefE(last, CounterBlock(last, 1))


\* the bytes a call copied out of region r
BytesReadFrom(c, r) ==
    LET ks == {k \in 1..Len(c.log) : c.log[k][1] = "copy" /\ c.log[k][3] = r}
    IN  IF \A k \in ks : c.log[k][4] = CY_CRYPTO_AES_BLOCK_SIZE
        THEN Cardinality(ks) * CY_CRYPTO_AES_BLOCK_SIZE
        ELSE -1

IsCtrWithTail(c) == c.op = "ctr" /\ ~WholeBlocks(c.srcSize)

\* C23: CTR processes whole blocks only. When srcSize is not a multiple of
\* 16 the last srcSize mod 16 bytes of src are not read, the bytes of dst at
\* their place stay as they were, and the counter advances by
\* floor(srcSize / 16), not for the partial block.
C23_CtrTailUntouched ==
    IsCtrWithTail(last) =>
        /\ BytesReadFrom(last, last.src) = FullBlocks(last) * CY_CRYPTO_AES_BLOCK_SIZE
        /\ \A i \in (FullBlocks(last) * CY_CRYPTO_AES_BLOCK_SIZE + 1)..last.srcSize :
               mem[last.dst][i] = last.pre[last.dst][i]
        /\ AsSeq(CounterOf(mem["ivBuf"]))
               = AsSeq(PlusBE(CounterOf(last.pre["ivBuf"]), FullBlocks(last)))

\* a block and a half: one block read, the counter up by one, the half block
\* of dst as it was
C23_Witness ==
    /\ IsCtrWithTail(last) /\ FullBlocks(last) >= 1
    /\ last.preLive
    /\ BytesReadFrom(last, last.src) < last.srcSize
    /\ BlockAt(mem[last.dst], 1) # BlockAt(last.pre[last.dst], 1)
    /\ mem[last.dst][last.srcSize] = last.pre[last.dst][last.srcSize]
    /\ CounterOf(mem["ivBuf"]) # CounterOf(last.pre["ivBuf"])


\* the last keystream block a ctr call derived
LastKeystream(c) == RefE(c, CounterBlock(c, FullBlocks(c) - 1))

\* the srcOffset a ctr call is handed when the call before it was a ctr call
IncomingOffset == prev.srcSize % CY_CRYPTO_AES_BLOCK_SIZE

\* C24: CTR resumes a stream. A ctr call leaves in the caller's streamBlock
\* the keystream block it derived last, and a call handed a srcOffset other
\* than 0 goes on at that offset in the saved block: its first bytes are the
\* source bytes XOR the saved block from srcOffset on.
C24_CtrResumesStream ==
    IsCtr(last) =>
        /\ FullBlocks(last) >= 1 => mem["streamBlock"] = LastKeystream(last)
        /\ (prev.op = "ctr" /\ IncomingOffset > 0
               /\ last.srcSize >= CY_CRYPTO_AES_BLOCK_SIZE - IncomingOffset) =>
              \A i \in 1..(CY_CRYPTO_AES_BLOCK_SIZE - IncomingOffset) :
                  mem[last.dst][i] =
                      Xor8(last.pre[last.src][i], last.pre["streamBlock"][IncomingOffset + i])


\* the memory a call started from, the working blocks filled with byte b
Scrubbed(c, b) ==
    [r \in DOMAIN c.pre |-> IF r \in WorkingRegs THEN Fill(Len(c.pre[r]), b) ELSE c.pre[r]]

\* the call c made again from memory pre, with the same arguments but for the
\* destination
AgainTo(c, pre, dstReg) ==
    LET m == [mem |-> pre, log |-> <<>>]
        dst == Ptr(dstReg, 0)
        src == Ptr(c.src, 0)
    IN  CASE c.op = "ecb" ->
               [Aes_Ecb(m, c.preState, c.dirMode, dst, src) EXCEPT !.m = @.mem]
          [] c.op = "cbc" ->
               [Aes_Cbc(m, c.preState, c.dirMode, c.srcSize, Ptr("ivBuf", 0), dst, src)
                   EXCEPT !.m = @.mem]
          [] c.op = "cfb" ->
               [Aes_Cfb(m, c.preState, c.dirMode, c.srcSize, Ptr("ivBuf", 0), dst, src)
                   EXCEPT !.m = @.mem]
          [] c.op = "ctr" ->
               [Aes_Ctr(m, c.preState, c.srcSize, Ptr("ivBuf", 0), Ptr("streamBlock", 0),
                        dst, src) EXCEPT !.m = @.mem]

Again(c, pre) == AgainTo(c, pre, c.dst)

\* what the caller sees of a call: the destination, the iv it holds, the
\* status
Visible(c, after, status) ==
    <<after[c.dst], after["ivBuf"], status>>

ScrubBytes == {0, 60}

\* C25: working blocks carry nothing from call to call. The output, the
\* status and the iv and srcOffset the caller holds after an ecb, cbc, cfb or
\* ctr call are those of the same call made with block0, block1, block2 and
\* the iv slot holding any other bytes: they depend on the arguments and the
\* key only.
C25_WorkingBlocksMeaningless ==
    IsModeCall(last) =>
        \A b \in ScrubBytes :
            \E r \in {Again(last, Scrubbed(last, b))} :
                /\ Visible(last, r.m, r.status) = Visible(last, mem, last.status)
                /\ last.op = "ctr" => r.srcOffset = srcOffset

\* a cbc call on blocks that follows another mode call: the chain block left
\* behind is not the iv, and the blocks it found are not the scrubbed ones
C25_Witness ==
    /\ IsModeCall(prev) /\ last.op = "cbc"
    /\ last.status = CY_CRYPTO_SUCCESS /\ last.srcSize >= CY_CRYPTO_AES_BLOCK_SIZE
    /\ last.pre["iv"] # last.pre["ivBuf"]
    /\ \A b \in ScrubBytes : Scrubbed(last, b) # last.pre
    /\ mem[last.dst] # last.pre[last.dst]


IsInPlace(c) == IsModeCall(c) /\ c.dst = c.src

\* the bytes a call is to produce: one block for ecb, the whole blocks of
\* srcSize for ctr, srcSize for cbc and cfb when it is whole blocks
OutputLen(c) ==
    CASE c.op = "ecb" -> CY_CRYPTO_AES_BLOCK_SIZE
      [] c.op = "ctr" -> FullBlocks(c) * CY_CRYPTO_AES_BLOCK_SIZE
      [] OTHER -> IF WholeBlocks(c.srcSize) THEN c.srcSize ELSE 0

\* C26: in-place operation is safe. An ecb, cbc, cfb (either direction) or
\* ctr call with dst equal to src gives the output bytes, the status and the
\* iv of the same call made with a destination apart from the source.
C26_InPlaceSafe ==
    IsInPlace(last) =>
        \E r \in {AgainTo(last, last.pre, Other(last.src))} :
            /\ First(mem[last.dst], OutputLen(last)) = First(r.m[Other(last.src)], OutputLen(last))
            /\ mem["ivBuf"] = r.m["ivBuf"]
            /\ last.status = r.status

\* a cbc decrypt of two blocks or more on one buffer
C26_Witness ==
    /\ IsInPlace(last) /\ last.op = "cbc" /\ last.dirMode = CY_CRYPTO_DECRYPT
    /\ OutputLen(last) >= 2 * CY_CRYPTO_AES_BLOCK_SIZE
    /\ First(mem[last.dst], OutputLen(last)) # First(last.pre[last.src], OutputLen(last))
    /\ BlockAt(mem[last.dst], 2) =
           HW_Xor(RefD(last, BlockAt(last.pre[last.src], 2)), BlockAt(last.pre[last.src], 1))


\* the context of the most recent Init and the key it was made from
Newest == held[Len(held)]

\* the call was passed a context of an Init before the most recent one
UsedOlderContext(c) ==
    /\ Len(held) >= 2
    /\ c.preState.keyLength # Newest.keyLength

\* C27: the contexts of one instance share its slots. Every context made by
\* Init on the instance names the same key slot, inverse-key slot and
\* working blocks; so an ecb ENCRYPT call passed any of them, one of an
\* earlier Init included, encrypts under the key of the most recent Init, and
\* Free leaves the key slots of all of them zero.
C27_ContextsShareSlots ==
    /\ \A i, j \in 1..Len(held) :
          /\ held[i].st.key = held[j].st.key
          /\ held[i].st.invKey = held[j].st.invKey
          /\ held[i].st.buffers = held[j].st.buffers
    /\ (last.op = "ecb" /\ last.dirMode = CY_CRYPTO_ENCRYPT /\ last.preLive) =>
          BlockAt(mem[last.dst], 1) =
              HW_AesBlock(Newest.key, Newest.keyLength, BlockAt(last.pre[last.src], 1))
    /\ last.op = "free" =>
          \A i \in 1..Len(held) :
              /\ mem[held[i].st.key] = Zeros(CY_CRYPTO_AES_256_KEY_SIZE)
              /\ mem[held[i].st.invKey] = Zeros(CY_CRYPTO_AES_256_KEY_SIZE)

\* Init with one key, Init with another, then an ecb ENCRYPT passed the
\* first context: the block is encrypted under the second key
C27_Witness ==
    /\ last.op = "ecb" /\ last.dirMode = CY_CRYPTO_ENCRYPT /\ last.preLive
    /\ UsedOlderContext(last)
    /\ held[1].key # Newest.key
    /\ BlockAt(mem[last.dst], 1) =
           HW_AesBlock(Newest.key, Newest.keyLength, BlockAt(last.pre[last.src], 1))
    /\ BlockAt(mem[last.dst], 1) #
           HW_AesBlock(held[1].key, held[1].keyLength, BlockAt(last.pre[last.src], 1))


\* thread t is inside a call with an arena slot of its own: claimed by
\* lwip_arena_alloc and not yet handed out or released, or being closed
Holding(t) == thr[t].pc # "idle" /\ thr[t].s # 0

\* C28: the socket arena. In every interleaving of socket_open,
\* socket_accept and socket_close made by several threads, a slot that
\* lwip_arena_alloc returns is no live handle and is claimed by no other
\* call; every live handle names a slot in use; a slot in use is a live
\* handle or belongs to a call in progress, so a failed socket_open or
\* socket_accept has released its slot; and socket_open returns
\* NSAPI_ERROR_NO_SOCKET when every slot is in use.
C28_ArenaInvariant ==
    /\ \A t \in Threads :
          Holding(t) =>
              /\ thr[t].s \notin handles
              /\ \A u \in Threads \ {t} : Holding(u) => thr[u].s # thr[t].s
    /\ \A h \in handles \ {0} : lwip_arena[h].in_use
    /\ \A i \in DOMAIN lwip_arena :
          lwip_arena[i].in_use =>
              i \in handles \/ \E t \in Threads : Holding(t) /\ thr[t].s = i
    /\ (netLast.op = "open" /\ netLast.full) => netLast.ret = "NSAPI_ERROR_NO_SOCKET"

\* a socket_open failed after it had claimed a slot, and two threads are now
\* inside calls, each with a slot
C28_Witness ==
    /\ netLast.op = "open" /\ netLast.ret = "NSAPI_ERROR_NO_SOCKET" /\ ~netLast.full
    /\ \E t, u \in Threads : t # u /\ Holding(t) /\ Holding(u)
    /\ \A i \in DOMAIN lwip_arena :
          lwip_arena[i].in_use => \E t \in Threads : Holding(t) /\ thr[t].s = i

====
